---- MODULE Spec2Model ----
(***************************************************************************)
(* git-ops: the reconciler (pkg/reconciler), the hook runner (pkg/utils),  *)
(* the module manager and the event bus (pkg/core), as state machines.     *)
(*                                                                         *)
(* Spec      : reconcile cycles over one repository with hook directories, *)
(*             secrets plugins and a stray unit on disk.                   *)
(* SpecFleet : reconcile cycles over two repositories, with one secrets    *)
(*             plugin and global hooks.                                    *)
(* SpecHooks : utils.ExecuteHooks over one stage directory.                *)
(* SpecLife  : main, ModuleManager.Init/Start/Stop and the goroutines of   *)
(*             the Reconciler; SpecLifeFair adds the scheduling fairness.  *)
(* SpecRegistry : one call of ModuleManager.GetPluginsWithCapability.      *)
(* SpecPlugins : one call of ModuleManager.LoadPlugins.                    *)
(* SpecMatch : one call of matchesPattern.                                 *)
(* SpecBusTypes : goroutines calling RegisterEventType, one in Publish.    *)
(* SpecBus   : Subscribe, Publish and the goroutines of the listeners.     *)
(* SpecBoot  : main from the loading of the configuration on.              *)
(* SpecWebhook : SpecLifeFair with POST /reconcile on the webhook trigger. *)
(* SpecSecret : the JSON and String forms of a core.Secret.                *)
(***************************************************************************)
EXTENDS Integers, Sequences, FiniteSets, TLC

VARIABLES
    cfg,            \* config.Config of the Reconciler: DryRun, GlobalHooksDir
    remote,         \* the source provider: the repositories the searches can
                    \* return and whether they hold .deploy/ hook directories
    modules,        \* ModuleManager.modules, in registration order
    disk,           \* TARGET_DIR/<owner>/<repo>: the directory of each unit
    desiredState,   \* reconcile: keys of the desiredState map of this cycle
    removalState,   \* reconcile: keys of the removalState map of this cycle
    pc,             \* position of the reconcile goroutine in the cycle
    todo,           \* keys of desiredState the deploy loop has not ranged over yet
    cyc,            \* what this cycle did at cycle level, in order
    run,            \* the latest deployRepo call: unit, content, effects in order
    last,           \* per unit, how its previous deployRepo call ended
    published,      \* event types handed to core.Publish so far
    hk,             \* one ExecuteHooks call (SpecHooks)
    life,           \* main, the ModuleManager and the goroutines of the
                    \* Reconciler (SpecLife)
    reg,            \* one GetPluginsWithCapability call (SpecRegistry)
    bus,            \* the event bus of pkg/core: registered types, subscribers,
                    \* the goroutines Publish spawned (SpecBus)
    fn              \* one call of a function: its arguments and its result

vars == <<cfg, remote, modules, disk, desiredState, removalState, pc, todo, cyc, run, last, published,
          hk, life, reg, bus, fn>>

recVars == <<cfg, remote, modules, disk, desiredState, removalState, pc, todo, cyc, run, last, published,
             life, reg, bus, fn>>

-----------------------------------------------------------------------------
(* Bounds *)

\* Most entries in one listed hook directory (SpecHooks).
MaxEntries == 4

\* Most modules registered with one ModuleManager (SpecRegistry).
MaxModules == 3

\* Most entries in the plugins directory (SpecPlugins).
MaxArtifacts == 3

\* Longest event type and longest pattern, in bytes, besides the named ones
\* (SpecMatch).
MaxTextLen == 3

\* Goroutines calling RegisterEventType (SpecBusTypes).
MaxCallers == 3

\* Subscribe calls and Publish calls in one run (SpecBus).
MaxSubs == 3

MaxPublishes == 2

\* Longest Secret value, in bytes (SpecSecret).
MaxSecretLen == 4

\* Most ticks counted while one cycle is in progress (SpecLife).
MaxTicks == 2

-----------------------------------------------------------------------------
(* Strings as bytes: file names are compared and suffix-tested bytewise. *)

NameBytes ==
    [n \in {"01-a.sh", "02-b.sh", "10-c.sh", "notes.txt", "old.sh", "00-g.sh", "99-n.sh",
             "alice", "bob", "app", "old", "a.so", "b.so", "Z.so"} |->
        CASE n = "01-a.sh"   -> <<48, 49, 45, 97, 46, 115, 104>>
          [] n = "alice"     -> <<97, 108, 105, 99, 101>>
          [] n = "bob"       -> <<98, 111, 98>>
          [] n = "app"       -> <<97, 112, 112>>
          [] n = "old"       -> <<111, 108, 100>>
          [] n = "02-b.sh"   -> <<48, 50, 45, 98, 46, 115, 104>>
          [] n = "10-c.sh"   -> <<49, 48, 45, 99, 46, 115, 104>>
          [] n = "notes.txt" -> <<110, 111, 116, 101, 115, 46, 116, 120, 116>>
          [] n = "old.sh"    -> <<111, 108, 100, 46, 115, 104>>
          [] n = "00-g.sh"   -> <<48, 48, 45, 103, 46, 115, 104>>
          [] n = "99-n.sh"   -> <<57, 57, 45, 110, 46, 115, 104>>
          [] n = "a.so"      -> <<97, 46, 115, 111>>
          [] n = "b.so"      -> <<98, 46, 115, 111>>
          [] n = "Z.so"      -> <<90, 46, 115, 111>>]

DotSh == <<46, 115, 104>>

DotSo == <<46, 115, 111>>

\* strings.HasSuffix on the bytes of the two strings
HasSuffix(s, suffix) ==
    /\ Len(s) >= Len(suffix)
    /\ SubSeq(s, Len(s) - Len(suffix) + 1, Len(s)) = suffix

RECURSIVE BytesLess(_, _)
\* Go's < on strings: bytewise lexicographic order
BytesLess(a, b) ==
    IF b = <<>> THEN FALSE
    ELSE IF a = <<>> THEN TRUE
    ELSE IF Head(a) # Head(b) THEN Head(a) < Head(b)
    ELSE BytesLess(Tail(a), Tail(b))

NameLess(x, y) == BytesLess(NameBytes[x], NameBytes[y])

RECURSIVE SetToSeq(_)
\* some order in which a file system lists the members of S
SetToSeq(S) ==
    IF S = {} THEN <<>>
    ELSE LET x == CHOOSE y \in S : TRUE IN <<x>> \o SetToSeq(S \ {x})

-----------------------------------------------------------------------------
(* pkg/utils ExecuteHooks *)

RECURSIVE InsertEntry(_, _)
InsertEntry(e, sorted) ==
    IF sorted = <<>> THEN <<e>>
    ELSE IF NameLess(e.name, Head(sorted).name) THEN <<e>> \o sorted
    ELSE <<Head(sorted)>> \o InsertEntry(e, Tail(sorted))

RECURSIVE SortEntries(_)
SortEntries(listing) ==
    IF listing = <<>> THEN <<>>
    ELSE InsertEntry(Head(listing), SortEntries(Tail(listing)))

\* variant: the entries in the order the file system lists them
ReadDir_Unsorted(listing) == listing

\* os.ReadDir: the entries of the directory sorted by file name, whatever
\* order the file system lists them in.
ReadDir(listing) == SortEntries(listing)

\* the loop's filter: entry.IsDir() || !strings.HasSuffix(entry.Name(), ".sh")
IsHook(e) == ~e.isDir /\ HasSuffix(NameBytes[e.name], DotSh)

RECURSIVE RunEntries(_, _)
\* the for loop of ExecuteHooks over the entries: each hook script is run;
\* the first one that exits non-zero ends the loop with an error.
RunEntries(entries, exit) ==
    IF entries = <<>> THEN [ran |-> <<>>, err |-> "nil"]
    ELSE LET e == Head(entries) IN
         IF ~IsHook(e) THEN RunEntries(Tail(entries), exit)
         ELSE IF exit[e.name] # 0
              THEN [ran |-> <<<<e.name, exit[e.name]>>>>, err |-> "hook"]
              ELSE LET rest == RunEntries(Tail(entries), exit) IN
                   [ran |-> <<<<e.name, 0>>>> \o rest.ran, err |-> rest.err]

\* ExecuteHooks(dir, env, logger). rd is what os.ReadDir met: "ok",
\* "notexist" or "err"; exit gives each script's exit status.
ExecuteHooks(listing, rd, exit) ==
    IF rd = "notexist" THEN [ran |-> <<>>, err |-> "nil"]
    ELSE IF rd # "ok" THEN [ran |-> <<>>, err |-> "readdir"]
    ELSE RunEntries(ReadDir(listing), exit)

-----------------------------------------------------------------------------
(* pkg/reconciler: the data of a cycle *)

\* unit keys "owner/repo", kept as the pair the key is formatted from
Units == {<<"alice", "app">>, <<"bob", "old">>}

\* cfg.Users as LoadConfig splits "alice,,bob"
Users == <<"alice", "", "bob">>

\* contents a remote docker-compose.yml can have
Contents == {"", "v1", "v2"}

NoFile == "<nofile>"
NoContent == "<none>"

NoHooksDir == [dir |-> FALSE, files |-> {}]

NoDir == [exists |-> FALSE, compose |-> NoFile, pre |-> NoHooksDir, post |-> NoHooksDir]

\* .deploy/<stage> of the remote repository: "404" or the listed entries
RemoteHooks(stage) ==
    IF stage = "pre"
    THEN <<[name |-> "01-a.sh", type |-> "file"], [name |-> "notes.txt", type |-> "file"],
           [name |-> "old.sh", type |-> "dir"]>>
    ELSE <<[name |-> "02-b.sh", type |-> "file"]>>

\* GLOBAL_HOOKS_DIR/<stage> when cfg.GlobalHooksDir is set
GlobalHooks(stage) ==
    IF stage = "pre" THEN {"00-g.sh"} ELSE {"99-n.sh"}

\* os.Environ() of the daemon
ProcEnv == <<<<"PATH", "/bin">>>>

\* the built-in reconciler alone
CoreModules == <<[name |-> "reconciler", plugin |-> FALSE, caps |-> <<>>]>>

\* the plugins LoadPlugins registered, then the reconciler main registers
PluginModules ==
    <<[name |-> "A", plugin |-> TRUE, caps |-> <<"secrets">>],
      [name |-> "ui", plugin |-> TRUE, caps |-> <<"ui">>],
      [name |-> "B", plugin |-> TRUE, caps |-> <<"notifier", "secrets">>],
      [name |-> "reconciler", plugin |-> FALSE, caps |-> <<>>]>>

\* one secrets plugin, then the reconciler
FleetModules ==
    <<[name |-> "B", plugin |-> TRUE, caps |-> <<"notifier", "secrets">>],
      [name |-> "reconciler", plugin |-> FALSE, caps |-> <<>>]>>

RECURSIVE HasCap(_, _)
\* the inner loop of GetPluginsWithCapability: break at the first match
HasCap(caps, cap) ==
    IF caps = <<>> THEN FALSE
    ELSE IF Head(caps) = cap THEN TRUE
    ELSE HasCap(Tail(caps), cap)

RECURSIVE PluginsWithCap(_, _)
\* variant: the inner loop without the break
PluginsWithCap_NoBreak(mods, cap) ==
    IF mods = <<>> THEN <<>>
    ELSE LET m == Head(mods)
             n == Cardinality({i \in DOMAIN m.caps : m.caps[i] = cap})
         IN  (IF m.plugin THEN [k \in 1..n |-> m.name] ELSE <<>>)
                 \o PluginsWithCap(Tail(mods), cap)

\* the outer loop of GetPluginsWithCapability: modules that are a Plugin
PluginsWithCap(mods, cap) ==
    IF mods = <<>> THEN <<>>
    ELSE LET m == Head(mods) IN
         IF m.plugin /\ HasCap(m.caps, cap)
         THEN <<m.name>> \o PluginsWithCap(Tail(mods), cap)
         ELSE PluginsWithCap(Tail(mods), cap)

\* ModuleManager.GetPluginsWithCapability
GetPluginsWithCapability(mods, cap) == PluginsWithCap(mods, cap)

\* what Execute("get_secrets", ...) of plugin p can return: an error, a
\* result that is no map[string]string, or a map (its pairs in range order)
PluginOutcomes(p) ==
    {[kind |-> "err", kv |-> <<>>], [kind |-> "other", kv |-> <<>>],
     [kind |-> "map", kv |-> <<>>],
     [kind |-> "map", kv |-> <<<<"K", IF p = "A" THEN "a" ELSE "b">>>>]}

RunStates == {"none", "notfound", "fetcherr", "contenterr", "same", "dryrun", "writeerr",
              "prefetcherr", "postfetcherr", "secreterr", "gprehookerr", "prehookerr",
              "uperr", "gposthookerr", "done"}

NoLast == [content |-> NoContent, res |-> "none", pruned |-> FALSE]

NoUnit == <<"", "">>

NoRun == [unit |-> NoUnit, content |-> NoContent, res |-> "none", log |-> <<>>, prev |-> NoLast]

\* one effect of a deployRepo call
Ev(op, stage, name, exit, env) ==
    [op |-> op, stage |-> stage, name |-> name, exit |-> exit, env |-> env]

\* one cycle-level effect
CycEv(op, u) == [op |-> op, unit |-> u]

HkIdle == [pc |-> "off", listing |-> <<>>, rd |-> "ok", exit |-> <<>>, ran |-> <<>>, err |-> "nil"]

\* no process: main has not been entered
LifeOff ==
    [main |-> "off", idx |-> 0, initLog |-> <<>>, startSt |-> <<>>, stopLog |-> <<>>,
     started |-> FALSE, stopCh |-> "open", tick |-> 0, loop |-> "none", wg |-> 0,
     stopPc |-> "none", waiter |-> "none", ctxDone |-> FALSE, trigger |-> 0, fired |-> 0]

RegOff == [pc |-> "off", tag |-> "", result |-> <<>>]

\* no event type registered, no subscriber, nothing published
BusOff ==
    [types |-> <<>>, mu |-> 0, callers |-> <<>>, subscribers |-> <<>>,
     pub |-> "off", pubs |-> 0, event |-> "", spawned |-> <<>>, proc |-> "off",
     reader |-> [pc |-> "off"]]

\* no function called
FnOff == [pc |-> "off"]

-----------------------------------------------------------------------------
(* reconcile: the desired and the removal set of a cycle *)

\* what Search.Repositories can answer for "user:<user> ...": an error, or
\* repositories of that user
SearchResults(user, scope) ==
    {[ok |-> FALSE, repos |-> {}]} \cup
    (IF user = "" THEN {}
     ELSE {[ok |-> TRUE, repos |-> S] : S \in SUBSET {u \in scope : u[1] = user}})

\* fetchReposInto: a failed search adds nothing to the map
fetchReposInto(q, target) == IF ~q.ok THEN target ELSE target \cup q.repos

\* fetchRemovalInto: a failed search adds nothing to the map
fetchRemovalInto(q, target) == IF ~q.ok THEN target ELSE target \cup q.repos

RECURSIVE QueryUsers(_, _, _, _, _)
\* the loop of reconcile over cfg.Users; qd, qr, qa are the answers to the
\* desired, the remove-topic and the archived query of each user
QueryUsers(i, qd, qr, qa, acc) ==
    IF i > Len(Users) THEN acc
    ELSE IF Users[i] = "" THEN QueryUsers(i + 1, qd, qr, qa, acc)
    ELSE LET desired == fetchReposInto(qd[i], acc.desired)
             removal1 == fetchRemovalInto(qr[i], acc.removal)
             removal2 == fetchRemovalInto(qa[i], removal1)
         IN  QueryUsers(i + 1, qd, qr, qa, [desired |-> desired, removal |-> removal2])

QueryAnswers(scope) == [i \in 1..Len(Users) |-> SearchResults(Users[i], scope)]

\* every (desiredState, removalState) the three queries per user can produce
CycleInputs(scope) ==
    LET QA == QueryAnswers(scope) IN
    {QueryUsers(1, <<a1, a2, a3>>, <<b1, b2, b3>>, <<c1, c2, c3>>, [desired |-> {}, removal |-> {}]) :
        a1 \in QA[1], a2 \in QA[2], a3 \in QA[3],
        b1 \in QA[1], b2 \in QA[2], b3 \in QA[3],
        c1 \in QA[1], c2 \in QA[2], c3 \in QA[3]}

-----------------------------------------------------------------------------
(* processLocalState and pruneService *)

UnitLess(u, v) ==
    \/ NameLess(u[1], v[1])
    \/ u[1] = v[1] /\ NameLess(u[2], v[2])

RECURSIVE SortUnits(_)
\* the order in which the two nested os.ReadDir walks meet the unit directories
SortUnits(S) ==
    IF S = {} THEN <<>>
    ELSE LET m == CHOOSE x \in S : \A y \in S \ {x} : UnitLess(x, y)
         IN  <<m>> \o SortUnits(S \ {m})

\* variant: prune whatever is not desired (pruneLocal of the first main.go)
ShouldPrune_Undesired(isDesired, isRemoval) == isRemoval \/ ~isDesired

\* variant: a unit that is also desired is left alone
ShouldPrune_NotDesired(isDesired, isRemoval) == isRemoval /\ ~isDesired

\* the branch of processLocalState that calls pruneService
ShouldPrune(isDesired, isRemoval) == isRemoval

\* variant: compose down without the os.RemoveAll that follows it
pruneService_DownOnly(u, st, dryRun, rmOK) ==
    IF dryRun THEN [st EXCEPT !.cyc = Append(@, CycEv("dryprune", u))]
    ELSE [st EXCEPT !.cyc = Append(@, CycEv("down", u)), !.last[u].pruned = TRUE]

\* pruneService(path); rmOK says whether os.RemoveAll succeeds, and a
\* failure is logged ("rmerr")
pruneService(u, st, dryRun, rmOK) ==
    IF dryRun THEN [st EXCEPT !.cyc = Append(@, CycEv("dryprune", u))]
    ELSE [disk |-> IF rmOK THEN [st.disk EXCEPT ![u] = NoDir] ELSE st.disk,
          cyc  |-> st.cyc \o <<CycEv("down", u), CycEv("removeall", u)>>
                          \o (IF rmOK THEN <<>> ELSE <<CycEv("rmerr", u)>>),
          last |-> [st.last EXCEPT ![u].pruned = TRUE]]

RECURSIVE WalkLocal(_, _, _, _, _, _)
\* the loops of processLocalState over the unit directories found on disk
WalkLocal(units, st, desired, removal, dryRun, rmOK) ==
    IF units = <<>> THEN st
    ELSE LET u == Head(units)
             isDesired == u \in desired
             isRemoval == u \in removal
             st1 == IF ShouldPrune(isDesired, isRemoval)
                    THEN pruneService(u, st, dryRun, rmOK[u])
                    ELSE IF ~isDesired
                         THEN [st EXCEPT !.cyc = Append(@, CycEv("warn", u))]
                         ELSE st
         IN  WalkLocal(Tail(units), st1, desired, removal, dryRun, rmOK)

-----------------------------------------------------------------------------
(* deployRepo: the pipeline of one unit, stage by stage.  A call in        *)
(* progress is [d, content, res, log, secretEnv]: the unit directory, the   *)
(* fetched content, "go" or the place where the call returned, the effects  *)
(* so far, the secrets collected so far.                                    *)

\* filepath.Join(cfg.TargetDir, owner, name)
repoLocalPath(u) == IF u = <<"alice", "app">> THEN "stacks/alice/app" ELSE "stacks/bob/old"

\* the environment deployRepo prepares for the hooks
hookEnv(u) == <<<<"REPO_NAME", u[2]>>, <<"REPO_OWNER", u[1]>>, <<"TARGET_DIR", repoLocalPath(u)>>>>

\* a stage applies to the calls still going; a call that returned stays as it is
Going(S) == {s \in S : s.res = "go"}

\* the calls that have returned
Returned(S) == {s \in S : s.res # "go"}

\* GetContents of docker-compose.yml: 404, another error, undecodable
\* content, or some content
fetchDescriptor(d, contents) ==
    {[d |-> d, content |-> NoContent, res |-> r, log |-> <<>>, secretEnv |-> <<>>] :
        r \in {"notfound", "fetcherr", "contenterr"}}
    \cup
    {[d |-> d, content |-> c, res |-> "go", log |-> <<>>, secretEnv |-> <<>>] : c \in contents}

\* string(existing) after existing, _ := os.ReadFile(filePath)
ReadFile(d) == IF d.compose = NoFile THEN "" ELSE d.compose

\* variant: no change detection, every fetched descriptor is deployed
ContentUnchanged_Never(existing, content) == FALSE

\* the change detection test: string(existing) == content
ContentUnchanged(existing, content) == existing = content

\* variant: os.MkdirAll also under DryRun
changeDetection_AlwaysMkdir(s, dryRun) ==
    LET created == ~s.d.exists
        d1   == IF created THEN [s.d EXCEPT !.exists = TRUE] ELSE s.d
        log1 == IF created THEN Append(s.log, Ev("mkdir", "", "", 0, <<>>)) ELSE s.log
        s1   == [s EXCEPT !.d = d1, !.log = log1]
    IN  IF ContentUnchanged(ReadFile(d1), s.content) THEN {[s1 EXCEPT !.res = "same"]}
        ELSE IF dryRun THEN {[s1 EXCEPT !.res = "dryrun"]}
        ELSE {s1}

\* os.MkdirAll unless DryRun, the change detection, the DryRun return
changeDetection(s, dryRun) ==
    LET created == ~dryRun /\ ~s.d.exists
        d1   == IF created THEN [s.d EXCEPT !.exists = TRUE] ELSE s.d
        log1 == IF created THEN Append(s.log, Ev("mkdir", "", "", 0, <<>>)) ELSE s.log
        s1   == [s EXCEPT !.d = d1, !.log = log1]
    IN  IF ContentUnchanged(ReadFile(d1), s.content) THEN {[s1 EXCEPT !.res = "same"]}
        ELSE IF dryRun THEN {[s1 EXCEPT !.res = "dryrun"]}
        ELSE {s1}

\* variant: the descriptor is not written at this point
writeDescriptor_Skipped(s) == {s}

\* os.WriteFile(filePath, content): succeeds or fails
writeDescriptor(s) ==
    {[s EXCEPT !.d.compose = s.content, !.log = Append(@, Ev("write", "", "", 0, <<>>))],
     [s EXCEPT !.res = "writeerr", !.log = Append(@, Ev("write", "", "", 1, <<>>))]}

RECURSIVE FetchFiles(_, _, _)
\* the loop of fetchRepoHooks over dirContent: entries that are no file or
\* no *.sh are passed over; a script whose content cannot be fetched or
\* decoded is passed over too (continue), which miss records; a failed
\* os.WriteFile returns the error
FetchFiles(entries, hd, miss) ==
    IF entries = <<>> THEN {[hd |-> hd, err |-> FALSE, miss |-> miss]}
    ELSE LET e == Head(entries) IN
         IF e.type # "file" \/ ~HasSuffix(NameBytes[e.name], DotSh)
         THEN FetchFiles(Tail(entries), hd, miss)
         ELSE FetchFiles(Tail(entries), hd, TRUE)
              \cup {[hd |-> hd, err |-> TRUE, miss |-> miss]}
              \cup FetchFiles(Tail(entries), [hd EXCEPT !.files = @ \cup {e.name}], miss)

\* fetchRepoHooks(owner, repo, stage, localDir): the results it can have,
\* as [hd, err, miss]: the local .deploy/<stage> afterwards, whether it
\* returned an error, whether it passed over a script it could not fetch
fetchRepoHooks(found, stage, hd) ==
    \* the listing fails with an error that is no 404
    {[hd |-> hd, err |-> TRUE, miss |-> FALSE]}
    \cup
    (IF ~found
     THEN {[hd |-> hd, err |-> FALSE, miss |-> FALSE]}
     ELSE \* os.MkdirAll(hooksDir) fails
          {[hd |-> hd, err |-> TRUE, miss |-> FALSE]}
          \cup FetchFiles(RemoteHooks(stage), [hd EXCEPT !.dir = TRUE], FALSE))

\* a failed fetchRepoHooks makes deployRepo return
HookFetchAborts(err) == err

fetchPreHooks(s, found) ==
    {LET s1 == [s EXCEPT !.d.pre = r.hd,
                         !.log = Append(@, Ev("fetchhooks", "pre", IF r.miss THEN "contenterr" ELSE "",
                                             IF r.err THEN 1 ELSE 0, <<>>))]
     IN  IF HookFetchAborts(r.err) THEN [s1 EXCEPT !.res = "prefetcherr"] ELSE s1
     : r \in fetchRepoHooks(found, "pre", s.d.pre)}

fetchPostHooks(s, found) ==
    {LET s1 == [s EXCEPT !.d.post = r.hd,
                         !.log = Append(@, Ev("fetchhooks", "post", IF r.miss THEN "contenterr" ELSE "",
                                             IF r.err THEN 1 ELSE 0, <<>>))]
     IN  IF HookFetchAborts(r.err) THEN [s1 EXCEPT !.res = "postfetcherr"] ELSE s1
     : r \in fetchRepoHooks(found, "post", s.d.post)}

\* variant: a plugin error is logged and the loop goes on
SecretErrorAborts_Never(kind) == FALSE

\* an error of Execute("get_secrets") makes deployRepo return
SecretErrorAborts(kind) == kind = "err"

\* secretEnv = append(secretEnv, "K=V") for the pairs of a map result
AppendSecrets(secretEnv, o) == IF o.kind = "map" THEN secretEnv \o o.kv ELSE secretEnv

RECURSIVE collectSecrets(_, _)
\* the loop over the plugins with capability "secrets"
collectSecrets(plugins, s) ==
    IF plugins = <<>> THEN {s}
    ELSE LET p == Head(plugins) IN
         UNION {LET s1 == [s EXCEPT !.log = Append(@, Ev("secrets", "", p,
                                                  IF o.kind = "err" THEN 1 ELSE 0,
                                                  IF o.kind = "map" THEN o.kv ELSE <<>>))]
                IN  IF SecretErrorAborts(o.kind)
                    THEN {[s1 EXCEPT !.res = "secreterr"]}
                    ELSE collectSecrets(Tail(plugins),
                                        [s1 EXCEPT !.secretEnv = AppendSecrets(@, o)])
                : o \in PluginOutcomes(p)}

RECURSIVE HookEvents(_, _, _)
HookEvents(ran, stage, env) ==
    IF ran = <<>> THEN <<>>
    ELSE <<Ev("hook", stage, Head(ran)[1], Head(ran)[2], env)>> \o HookEvents(Tail(ran), stage, env)

\* the entries of a local hook directory, as some listing of its files
Listing(files) == SetToSeq({[name |-> n, isDir |-> FALSE] : n \in files})

\* variant: a failed per-unit pre stage is only logged, like the post stage
StageAbort_PreLogged(stage) ==
    CASE stage = "gpre"  -> "gprehookerr"
      [] stage = "pre"   -> ""
      [] stage = "post"  -> ""
      [] stage = "gpost" -> "gposthookerr"

\* variant: a failed per-unit post stage makes deployRepo return
StageAbort_PostAborts(stage) ==
    CASE stage = "gpre"  -> "gprehookerr"
      [] stage = "pre"   -> "prehookerr"
      [] stage = "post"  -> "posthookerr"
      [] stage = "gpost" -> "gposthookerr"

\* whether an error of ExecuteHooks at this stage makes deployRepo return
\* ("" : it does not), and the place of the return
StageAbort(stage) ==
    CASE stage = "gpre"  -> "gprehookerr"
      [] stage = "pre"   -> "prehookerr"
      [] stage = "post"  -> ""
      [] stage = "gpost" -> "gposthookerr"

\* variant: the secrets collected are appended to the hooks' environment
stageEnv_WithSecrets(s, u) == hookEnv(u) \o s.secretEnv

\* the env argument of every ExecuteHooks call of deployRepo: hookEnv, with
\* nothing of secretEnv
stageEnv(s, u) == hookEnv(u)

\* utils.ExecuteHooks on a stage directory holding `files` (present or not),
\* for every exit status its scripts can have
runHooks(s, u, stage, present, files) ==
    {LET r == ExecuteHooks(Listing(files), IF present THEN "ok" ELSE "notexist", exit)
         log1 == s.log \o HookEvents(r.ran, stage, ProcEnv \o stageEnv(s, u))
     IN  IF r.err # "nil" /\ StageAbort(stage) # ""
         THEN [s EXCEPT !.log = log1, !.res = StageAbort(stage)]
         ELSE [s EXCEPT !.log = log1]
     : exit \in [files -> {0, 1}]}

\* variant: a failed Up is logged and the post stages follow
UpErrorAborts_Never(exit) == FALSE

\* exec "docker compose up -d" with cmd.Env = append(os.Environ(), secretEnv...)
\* an error of cmd.Run() makes deployRepo return
UpErrorAborts(exit) == exit # 0

composeUp(s) ==
    {LET s1 == [s EXCEPT !.log = Append(@, Ev("up", "", "", exit, ProcEnv \o s.secretEnv))]
     IN  IF UpErrorAborts(exit) THEN [s1 EXCEPT !.res = "uperr"] ELSE s1
     : exit \in {0, 1}}

\* the end of deployRepo: "Deploy sequence complete"
complete(s) == {[s EXCEPT !.res = "done"]}

\* variant: the per-unit post stage is run before docker compose up
deployRepo_PostFirst(u, d, dryRun, globalHooksDir, found, contents, mods) ==
    LET s0 == fetchDescriptor(d, contents)
        s1 == Returned(s0) \cup UNION {changeDetection(s, dryRun) : s \in Going(s0)}
        s2 == Returned(s1) \cup UNION {writeDescriptor(s) : s \in Going(s1)}
        s3 == Returned(s2) \cup UNION {fetchPreHooks(s, found) : s \in Going(s2)}
        s4 == Returned(s3) \cup UNION {fetchPostHooks(s, found) : s \in Going(s3)}
        s5 == Returned(s4) \cup
              UNION {collectSecrets(GetPluginsWithCapability(mods, "secrets"), s) : s \in Going(s4)}
        s6 == IF globalHooksDir # ""
              THEN Returned(s5) \cup
                   UNION {runHooks(s, u, "gpre", TRUE, GlobalHooks("pre")) : s \in Going(s5)}
              ELSE s5
        s7 == Returned(s6) \cup
              UNION {runHooks(s, u, "pre", s.d.pre.dir, s.d.pre.files) : s \in Going(s6)}
        s8 == Returned(s7) \cup
              UNION {runHooks(s, u, "post", s.d.post.dir, s.d.post.files) : s \in Going(s7)}
        s9 == Returned(s8) \cup UNION {composeUp(s) : s \in Going(s8)}
        s10 == IF globalHooksDir # ""
               THEN Returned(s9) \cup
                    UNION {runHooks(s, u, "gpost", TRUE, GlobalHooks("post")) : s \in Going(s9)}
               ELSE s9
    IN  Returned(s10) \cup UNION {complete(s) : s \in Going(s10)}

\* deployRepo(ctx, fullName, repo): every way the call can go from unit
\* directory d, as the set of its final [d, content, res, log, secretEnv]
deployRepo(u, d, dryRun, globalHooksDir, found, contents, mods) ==
    LET s0 == fetchDescriptor(d, contents)
        s1 == Returned(s0) \cup UNION {changeDetection(s, dryRun) : s \in Going(s0)}
        s2 == Returned(s1) \cup UNION {writeDescriptor(s) : s \in Going(s1)}
        s3 == Returned(s2) \cup UNION {fetchPreHooks(s, found) : s \in Going(s2)}
        s4 == Returned(s3) \cup UNION {fetchPostHooks(s, found) : s \in Going(s3)}
        s5 == Returned(s4) \cup
              UNION {collectSecrets(GetPluginsWithCapability(mods, "secrets"), s) : s \in Going(s4)}
        s6 == IF globalHooksDir # ""
              THEN Returned(s5) \cup
                   UNION {runHooks(s, u, "gpre", TRUE, GlobalHooks("pre")) : s \in Going(s5)}
              ELSE s5
        s7 == Returned(s6) \cup
              UNION {runHooks(s, u, "pre", s.d.pre.dir, s.d.pre.files) : s \in Going(s6)}
        s8 == Returned(s7) \cup UNION {composeUp(s) : s \in Going(s7)}
        s9 == Returned(s8) \cup
              UNION {runHooks(s, u, "post", s.d.post.dir, s.d.post.files) : s \in Going(s8)}
        s10 == IF globalHooksDir # ""
               THEN Returned(s9) \cup
                    UNION {runHooks(s, u, "gpost", TRUE, GlobalHooks("post")) : s \in Going(s9)}
               ELSE s9
    IN  Returned(s10) \cup UNION {complete(s) : s \in Going(s10)}

-----------------------------------------------------------------------------
(* The reconcile cycle as actions *)

Deployed0 == [exists |-> TRUE, compose |-> "v1", pre |-> NoHooksDir, post |-> NoHooksDir]

Configs == [DryRun : BOOLEAN, GlobalHooksDir : {"", "/etc/git-ops/hooks"}]

\* the state NewReconciler and ModuleManager.Init leave, before the first cycle
InitCycle ==
    /\ disk \in [Units -> {NoDir, Deployed0}]
    /\ desiredState = {}
    /\ removalState = {}
    /\ pc = "idle"
    /\ todo = {}
    /\ cyc = <<>>
    /\ run = NoRun
    /\ last = [u \in Units |-> NoLast]
    /\ published = {}
    /\ hk = HkIdle
    /\ life = LifeOff
    /\ reg = RegOff
    /\ bus = BusOff
    /\ fn = FnOff

\* one tagged repository with .deploy/ directories, plugins loaded
Init ==
    /\ remote = [scope |-> {<<"alice", "app">>}, hooks |-> TRUE, contents |-> Contents]
    /\ modules = PluginModules
    /\ cfg \in Configs
    /\ InitCycle

\* two tagged repositories without .deploy/ directories, one secrets
\* plugin, global hooks
InitFleet ==
    /\ remote = [scope |-> Units, hooks |-> FALSE, contents |-> {"v1"}]
    /\ modules = FleetModules
    /\ cfg \in {c \in Configs : ~c.DryRun /\ c.GlobalHooksDir # ""}
    /\ InitCycle

\* reconcile, steps 1 and 2: the three searches per user build the two maps
BuildState ==
    /\ pc = "idle"
    /\ \E in \in CycleInputs(remote.scope) :
        /\ desiredState' = in.desired
        /\ removalState' = in.removal
        /\ todo' = in.desired
    /\ pc' = "local"
    /\ UNCHANGED <<cfg, remote, modules, disk, cyc, run, last, published, hk, life, reg, bus, fn>>

\* variant: the walk of the local unit directories may also run once the
\* deploy loop has begun
ProcessLocalState_Late ==
    /\ pc \in {"local", "deploy"}
    /\ \E rmOK \in [Units -> BOOLEAN] :
        LET st == WalkLocal(SortUnits({u \in Units : disk[u].exists}),
                            [disk |-> disk, cyc |-> cyc, last |-> last],
                            desiredState, removalState, cfg.DryRun, rmOK)
        IN  /\ disk' = st.disk
            /\ cyc' = st.cyc
            /\ last' = st.last
    /\ pc' = "deploy"
    /\ UNCHANGED <<cfg, remote, modules, desiredState, removalState, todo, run, published, hk, life, reg, bus, fn>>

\* reconcile, step 3: processLocalState walks the local unit directories
ProcessLocalState ==
    /\ pc = "local"
    /\ \E rmOK \in [Units -> BOOLEAN] :
        LET st == WalkLocal(SortUnits({u \in Units : disk[u].exists}),
                            [disk |-> disk, cyc |-> cyc, last |-> last],
                            desiredState, removalState, cfg.DryRun, rmOK)
        IN  /\ disk' = st.disk
            /\ cyc' = st.cyc
            /\ last' = st.last
    /\ pc' = "deploy"
    /\ UNCHANGED <<cfg, remote, modules, desiredState, removalState, todo, run, published, hk, life, reg, bus, fn>>

\* variant: the deploy loop without the conflict test
SkipDeploy_Never(u, removal) == FALSE

\* the test of the deploy loop: if removalState[fullName] { ...; continue }
SkipDeploy(u, removal) == u \in removal

\* variant: a deployRepo call that failed ends the range
RemainingAfter_StopOnError(t, u, res) ==
    IF res \in {"done", "same", "dryrun", "notfound"} THEN t \ {u} ELSE {}

\* deployRepo returns nothing: whatever it did, the range goes on with the
\* keys not yet visited
RemainingAfter(t, u, res) == t \ {u}

\* reconcile, step 4: one iteration of the range over desiredState (a Go
\* map: any order)
DeployLoop(u) ==
    /\ pc = "deploy"
    /\ u \in todo
    /\ \/ /\ SkipDeploy(u, removalState)
          /\ cyc' = Append(cyc, CycEv("skip", u))
          /\ todo' = todo \ {u}
          /\ UNCHANGED <<disk, run, last>>
       \/ /\ ~SkipDeploy(u, removalState)
          /\ \E r \in deployRepo(u, disk[u], cfg.DryRun, cfg.GlobalHooksDir,
                                 remote.hooks, remote.contents, modules) :
                /\ todo' = RemainingAfter(todo, u, r.res)
                /\ disk' = [disk EXCEPT ![u] = r.d]
                /\ run' = [unit |-> u, content |-> r.content, res |-> r.res,
                           log |-> r.log, prev |-> last[u]]
                /\ last' = [last EXCEPT ![u] =
                              [content |-> r.content, res |-> r.res, pruned |-> FALSE]]
          /\ cyc' = Append(cyc, CycEv("deploy", u))
    /\ UNCHANGED <<cfg, remote, modules, desiredState, removalState, pc, published, hk, life, reg, bus, fn>>

\* the range over desiredState is exhausted: reconcile returns, and its
\* maps are gone
ReconcileDone ==
    /\ pc = "deploy"
    /\ todo = {}
    /\ pc' = "idle"
    /\ desiredState' = {}
    /\ removalState' = {}
    /\ cyc' = <<>>
    /\ run' = NoRun
    /\ UNCHANGED <<cfg, remote, modules, disk, todo, last, published, hk, life, reg, bus, fn>>

Next ==
    \/ BuildState
    \/ ProcessLocalState
    \/ \E u \in Units : DeployLoop(u)
    \/ ReconcileDone

Spec == Init /\ [][Next]_vars

SpecFleet == InitFleet /\ [][Next]_vars

-----------------------------------------------------------------------------
(* One call of utils.ExecuteHooks on a stage directory *)

\* entries a stage directory can hold
HookEntries ==
    {[name |-> "01-a.sh", isDir |-> FALSE], [name |-> "02-b.sh", isDir |-> FALSE],
     [name |-> "10-c.sh", isDir |-> FALSE], [name |-> "notes.txt", isDir |-> FALSE],
     [name |-> "old.sh", isDir |-> TRUE]}

\* the orders in which a file system can list up to MaxEntries of them
Listings ==
    {l \in UNION {[1..n -> HookEntries] : n \in 0..MaxEntries} :
        \A i, j \in DOMAIN l : i # j => l[i] # l[j]}

InitHooks ==
    /\ \E l \in Listings, rd \in {"ok", "notexist", "err"},
          exit \in [{e.name : e \in HookEntries} -> {0, 1}] :
            /\ rd = "notexist" => l = <<>>
            /\ hk = [pc |-> "call", listing |-> l, rd |-> rd, exit |-> exit,
                     ran |-> <<>>, err |-> "nil"]
    /\ remote = [scope |-> {}, hooks |-> FALSE, contents |-> {}]
    /\ modules = CoreModules
    /\ cfg = [DryRun |-> FALSE, GlobalHooksDir |-> ""]
    /\ disk = [u \in Units |-> NoDir]
    /\ desiredState = {}
    /\ removalState = {}
    /\ pc = "off"
    /\ todo = {}
    /\ cyc = <<>>
    /\ run = NoRun
    /\ last = [u \in Units |-> NoLast]
    /\ published = {}
    /\ life = LifeOff
    /\ reg = RegOff
    /\ bus = BusOff
    /\ fn = FnOff

CallExecuteHooks ==
    /\ hk.pc = "call"
    /\ LET r == ExecuteHooks(hk.listing, hk.rd, hk.exit)
       IN  hk' = [hk EXCEPT !.pc = "done", !.ran = r.ran, !.err = r.err]
    /\ UNCHANGED recVars

NextHooks == CallExecuteHooks

SpecHooks == InitHooks /\ [][NextHooks]_vars

-----------------------------------------------------------------------------
(* The process: main, ModuleManager.Init/Start/Stop, and the goroutines of  *)
(* Reconciler.Start and Reconciler.Stop.  A reconcile cycle is the time     *)
(* between the wg.Add(1) and the wg.Done() of runReconcile.                 *)

notLife == <<cfg, remote, modules, disk, desiredState, removalState, pc, todo, cyc, run, last,
             published, hk, reg, bus, fn>>

IsReconciler(i) == modules[i].name = "reconciler"

\* the process is running: neither os.Exit(1) nor the return of main yet
Alive == life.main \in {"init", "start", "wait", "stop"}

\* the state at the call of mgr.Init(ctx) in main
InitLife ==
    /\ modules = PluginModules
    /\ life = [LifeOff EXCEPT !.main = "init", !.idx = 1,
                              !.startSt = [i \in 1..Len(PluginModules) |-> "no"]]
    /\ reg = RegOff
    /\ hk = HkIdle
    /\ bus = BusOff
    /\ fn = FnOff
    /\ remote = [scope |-> {}, hooks |-> FALSE, contents |-> {}]
    /\ cfg = [DryRun |-> FALSE, GlobalHooksDir |-> ""]
    /\ disk = [u \in Units |-> NoDir]
    /\ desiredState = {}
    /\ removalState = {}
    /\ pc = "off"
    /\ todo = {}
    /\ cyc = <<>>
    /\ run = NoRun
    /\ last = [u \in Units |-> NoLast]
    /\ published = {}

\* variant: a failed Init is logged and the loop goes on
InitErrorAborts_Never(err) == FALSE

\* ModuleManager.Init: if err != nil { return fmt.Errorf(...) }
InitErrorAborts(err) == err

\* what Init of module i can return: main has checked cfg.Token, so the
\* Reconciler's Init returns nil; a plugin's Init may fail
InitResults(i) == IF IsReconciler(i) THEN {FALSE} ELSE BOOLEAN

\* one iteration of the loop of ModuleManager.Init; on an error main logs
\* and calls os.Exit(1)
MgrInit ==
    /\ life.main = "init"
    /\ \E err \in InitResults(life.idx) :
          life' = [life EXCEPT
                     !.initLog = Append(@, [mod |-> life.idx, err |-> err]),
                     !.main = IF InitErrorAborts(err) THEN "exit1"
                              ELSE IF life.idx = Len(modules) THEN "start" ELSE @,
                     !.idx = IF InitErrorAborts(err) THEN 0
                             ELSE IF life.idx = Len(modules) THEN 1 ELSE @ + 1]
    /\ UNCHANGED notLife

\* variant: Start called in the loop itself, the loop ending at a failure
CanSpawn_Sequential(st, i) == i = 1 \/ st[i - 1] = "ok"

\* ModuleManager.Start: go func(mod Module) {...}(mod) waits for nothing
CanSpawn(st, i) == TRUE

\* one iteration of the loop of ModuleManager.Start; after the last one
\* main goes on to wait for a signal
MgrStart ==
    /\ life.main = "start"
    /\ CanSpawn(life.startSt, life.idx)
    /\ life' = [life EXCEPT
                  !.startSt[life.idx] = "spawned",
                  !.main = IF life.idx = Len(modules) THEN "wait" ELSE @,
                  !.idx = IF life.idx = Len(modules) THEN 0 ELSE @ + 1]
    /\ UNCHANGED notLife

\* the goroutine of a plugin calls mod.Start(ctx)
ModStart(i) ==
    /\ Alive
    /\ ~IsReconciler(i)
    /\ life.startSt[i] = "spawned"
    /\ life' = [life EXCEPT !.startSt[i] = "called"]
    /\ UNCHANGED notLife

\* a plugin's Start returns nil or an error (it may also never return)
ModStartReturn(i) ==
    /\ Alive
    /\ life.startSt[i] = "called"
    /\ \E r \in {"ok", "err"} : life' = [life EXCEPT !.startSt[i] = r]
    /\ UNCHANGED notLife

\* variant: Start without the started flag
StartGuard_Never(started) == FALSE

\* Reconciler.Start: if r.started { return nil }
StartGuard(started) == started

\* the goroutine of the reconciler module calls Reconciler.Start: the
\* ticker is created and the loop goroutine is spawned
RecStart(i) ==
    /\ Alive
    /\ IsReconciler(i)
    /\ life.startSt[i] = "spawned"
    /\ life' = IF StartGuard(life.started)
               THEN [life EXCEPT !.startSt[i] = "ok"]
               ELSE [life EXCEPT !.startSt[i] = "ok", !.started = TRUE, !.loop = "first"]
    /\ UNCHANGED notLife

\* the ticker exists and ticker.Stop() has not been called
TickerOn == life.loop \in {"first", "select", "cycle"}

\* variant: ticker.C keeps every tick that fired
ticksAfterFire_Queued(t) == t + 1

\* ticker.C after the ticker fired: the channel holds one tick, a tick that
\* finds it full is dropped
ticksAfterFire(t) == IF t = 0 THEN 1 ELSE t

\* the ticker fires, during a cycle or between two; fired counts the ticks
\* that fired during the cycle in progress
Tick ==
    /\ Alive
    /\ TickerOn
    /\ life.loop = "cycle" => life.fired < MaxTicks
    /\ life' = [life EXCEPT !.tick = ticksAfterFire(@),
                            !.fired = IF life.loop = "cycle" THEN @ + 1 ELSE @]
    /\ UNCHANGED notLife

\* variant: go r.runReconcile(ctx)
AfterDispatch_Spawned == "select"

\* r.runReconcile(ctx) is a call: the loop goroutine is in the cycle until
\* it returns
AfterDispatch == "cycle"

\* "Run once immediately"
RunFirst ==
    /\ Alive
    /\ life.loop = "first"
    /\ life' = [life EXCEPT !.wg = @ + 1, !.loop = AfterDispatch]
    /\ UNCHANGED notLife

\* case <-r.ticker.C: r.runReconcile(ctx)
SelectTick ==
    /\ Alive
    /\ life.loop = "select"
    /\ life.tick >= 1
    /\ life' = [life EXCEPT !.tick = @ - 1, !.wg = @ + 1, !.loop = AfterDispatch]
    /\ UNCHANGED notLife

\* reconcile returns and the deferred wg.Done() runs
CycleFinish ==
    /\ Alive
    /\ life.wg > 0
    /\ life' = [life EXCEPT !.wg = @ - 1, !.fired = 0,
                            !.loop = IF @ = "cycle" THEN "select" ELSE @]
    /\ UNCHANGED notLife

\* case <-r.stopCh, case <-ctx.Done(): r.ticker.Stop(); return
SelectExit ==
    /\ Alive
    /\ life.loop = "select"
    /\ life.stopCh = "closed" \/ life.ctxDone
    /\ life' = [life EXCEPT !.loop = "exited"]
    /\ UNCHANGED notLife

\* sig := <-sigChan; main goes on to mgr.Stop(ctx)
Signal ==
    /\ life.main = "wait"
    /\ life' = [life EXCEPT !.main = "stop", !.idx = Len(modules)]
    /\ UNCHANGED notLife

\* variant: the loop of Stop ends at the first error
StopErrorEnds_Always(err) == err

\* ModuleManager.Stop logs the error of a Stop and goes on
StopErrorEnds(err) == FALSE

\* the iteration of ModuleManager.Stop after mod.Stop returned err
StopReturned(l, err) ==
    [l EXCEPT !.stopLog = Append(@, [mod |-> l.idx, err |-> err]),
              !.idx = IF StopErrorEnds(err) THEN 0 ELSE @ - 1]

\* one iteration of the loop of ModuleManager.Stop on a plugin
MgrStopPlugin ==
    /\ life.main = "stop"
    /\ life.idx >= 1
    /\ ~IsReconciler(life.idx)
    /\ \E err \in BOOLEAN : life' = StopReturned(life, err)
    /\ UNCHANGED notLife

\* ModuleManager.Stop calls Reconciler.Stop: not started, it returns nil;
\* else it closes stopCh, spawns the goroutine of wg.Wait() and selects
RecStopCall ==
    /\ life.main = "stop"
    /\ life.idx >= 1
    /\ IsReconciler(life.idx)
    /\ life.stopPc = "none"
    /\ life' = IF ~life.started
               THEN [StopReturned(life, FALSE) EXCEPT !.stopPc = "nil"]
               ELSE [life EXCEPT !.stopCh = "closed", !.waiter = "waiting", !.stopPc = "wait"]
    /\ UNCHANGED notLife

\* r.wg.Wait() returns, close(done)
WaiterDone ==
    /\ Alive
    /\ life.waiter = "waiting"
    /\ life.wg = 0
    /\ life' = [life EXCEPT !.waiter = "closed"]
    /\ UNCHANGED notLife

\* the select of Reconciler.Stop: case <-done returns nil, case
\* <-ctx.Done() returns ctx.Err(); ModuleManager.Stop goes on
RecStopReturn ==
    /\ life.main = "stop"
    /\ life.stopPc = "wait"
    /\ \E r \in (IF life.waiter = "closed" THEN {"nil"} ELSE {}) \cup
                (IF life.ctxDone THEN {"ctxerr"} ELSE {}) :
          life' = [StopReturned(life, r = "ctxerr") EXCEPT !.stopPc = r]
    /\ UNCHANGED notLife

\* mgr.Stop has returned: main returns, the deferred cancel() runs and the
\* process ends
MainReturn ==
    /\ life.main = "stop"
    /\ life.idx = 0
    /\ life' = [life EXCEPT !.main = "done", !.ctxDone = TRUE]
    /\ UNCHANGED notLife

NextLife ==
    \/ MgrInit
    \/ MgrStart
    \/ \E i \in DOMAIN modules : ModStart(i)
    \/ \E i \in DOMAIN modules : ModStartReturn(i)
    \/ \E i \in DOMAIN modules : RecStart(i)
    \/ Tick
    \/ RunFirst
    \/ SelectTick
    \/ CycleFinish
    \/ SelectExit
    \/ Signal
    \/ MgrStopPlugin
    \/ RecStopCall
    \/ WaiterDone
    \/ RecStopReturn
    \/ MainReturn

SpecLife == InitLife /\ [][NextLife]_vars

\* the goroutines are scheduled; how long a cycle or a plugin's Start
\* takes, when the ticker fires and when a signal arrives is not assumed
LifeFairness ==
    /\ WF_vars(MgrInit)
    /\ WF_vars(MgrStart)
    /\ \A i \in DOMAIN PluginModules : WF_vars(ModStart(i)) /\ WF_vars(RecStart(i))
    /\ WF_vars(RunFirst)
    /\ SF_vars(SelectExit)
    /\ WF_vars(MgrStopPlugin)
    /\ WF_vars(RecStopCall)
    /\ SF_vars(WaiterDone)
    /\ WF_vars(RecStopReturn)
    /\ WF_vars(MainReturn)

SpecLifeFair == SpecLife /\ LifeFairness

-----------------------------------------------------------------------------
(* One call of ModuleManager.GetPluginsWithCapability *)

notReg == <<cfg, remote, modules, disk, desiredState, removalState, pc, todo, cyc, run, last,
            published, hk, life, bus, fn>>

\* modules that can be registered: plugins, one of them listing a
\* capability twice, and a module that is no Plugin
RegistryModules ==
    {[name |-> "A", plugin |-> TRUE, caps |-> <<"secrets">>],
     [name |-> "D", plugin |-> TRUE, caps |-> <<"secrets", "ui", "secrets">>],
     [name |-> "ui", plugin |-> TRUE, caps |-> <<"ui">>],
     [name |-> "B", plugin |-> TRUE, caps |-> <<"notifier", "secrets">>],
     [name |-> "core", plugin |-> FALSE, caps |-> <<"secrets">>]}

\* capability tags asked for
Tags == {"secrets", "ui", "notifier", "trigger"}

\* m.modules after up to MaxModules calls of Register
Registrations ==
    {l \in UNION {[1..n -> RegistryModules] : n \in 0..MaxModules} :
        \A i, j \in DOMAIN l : i # j => l[i] # l[j]}

InitRegistry ==
    /\ modules \in Registrations
    /\ \E tag \in Tags : reg = [pc |-> "call", tag |-> tag, result |-> <<>>]
    /\ life = LifeOff
    /\ hk = HkIdle
    /\ bus = BusOff
    /\ fn = FnOff
    /\ remote = [scope |-> {}, hooks |-> FALSE, contents |-> {}]
    /\ cfg = [DryRun |-> FALSE, GlobalHooksDir |-> ""]
    /\ disk = [u \in Units |-> NoDir]
    /\ desiredState = {}
    /\ removalState = {}
    /\ pc = "off"
    /\ todo = {}
    /\ cyc = <<>>
    /\ run = NoRun
    /\ last = [u \in Units |-> NoLast]
    /\ published = {}

CallGetPlugins ==
    /\ reg.pc = "call"
    /\ reg' = [reg EXCEPT !.pc = "done", !.result = GetPluginsWithCapability(modules, reg.tag)]
    /\ UNCHANGED notReg

NextRegistry == CallGetPlugins

SpecRegistry == InitRegistry /\ [][NextRegistry]_vars

-----------------------------------------------------------------------------
(* ModuleManager.LoadPlugins over one plugins directory (SpecPlugins) *)

\* what loading one artifact meets: it loads, plugin.Open fails, the symbol
\* "Plugin" is missing, or the symbol does not implement core.Plugin
Loads == {"ok", "open", "nosym", "type"}

\* entries a plugins directory can hold: shared objects, a directory whose
\* name ends in .so, a file that is no shared object
Artifacts ==
    [name : {"a.so", "b.so", "Z.so"}, isDir : {FALSE}, load : Loads] \cup
    [name : {"a.so", "b.so", "Z.so", "notes.txt"}, isDir : {TRUE}, load : {"ok"}] \cup
    [name : {"notes.txt"}, isDir : {FALSE}, load : {"ok"}]

\* the directory in the order the file system lists it
ArtifactListings ==
    {l \in UNION {[1..n -> Artifacts] : n \in 0..MaxArtifacts} :
        \A i, j \in DOMAIN l : i # j => l[i].name # l[j].name}

\* the loop's filter: entry.IsDir() || !strings.HasSuffix(entry.Name(), ".so")
IsArtifact(e) == ~e.isDir /\ HasSuffix(NameBytes[e.name], DotSo)

\* ModuleManager.Register: append to m.modules
Register(mods, e) == Append(mods, [name |-> e.name, plugin |-> TRUE, caps |-> <<>>])

\* variant: the first artifact that fails to load ends the loop
LoadFailureEnds_Abort(load) == load # "ok"

\* each of the three failures is logged and followed by `continue`
LoadFailureEnds(load) == FALSE

RECURSIVE LoadEntries(_, _)
\* the for loop of LoadPlugins over the entries os.ReadDir returned
LoadEntries(entries, mods) ==
    IF entries = <<>> THEN mods
    ELSE LET e == Head(entries) IN
         IF ~IsArtifact(e) THEN LoadEntries(Tail(entries), mods)
         ELSE IF e.load # "ok"
              THEN IF LoadFailureEnds(e.load) THEN mods
                   ELSE LoadEntries(Tail(entries), mods)
              ELSE LoadEntries(Tail(entries), Register(mods, e))

\* LoadPlugins(dir): rd is what os.ReadDir met
LoadPlugins(listing, rd, mods) ==
    IF rd = "notexist" THEN [modules |-> mods, err |-> "nil"]
    ELSE IF rd # "ok" THEN [modules |-> mods, err |-> "readdir"]
    ELSE [modules |-> LoadEntries(ReadDir(listing), mods), err |-> "nil"]

\* main: a new ModuleManager, then mgr.LoadPlugins(pluginsDir)
InitPlugins ==
    /\ modules = <<>>
    /\ \E l \in ArtifactListings, rd \in {"ok", "notexist", "err"} :
          /\ rd = "notexist" => l = <<>>
          /\ fn = [pc |-> "call", op |-> "LoadPlugins", listing |-> l, rd |-> rd, err |-> "nil"]
    /\ reg = RegOff
    /\ bus = BusOff
    /\ life = LifeOff
    /\ hk = HkIdle
    /\ remote = [scope |-> {}, hooks |-> FALSE, contents |-> {}]
    /\ cfg = [DryRun |-> FALSE, GlobalHooksDir |-> ""]
    /\ disk = [u \in Units |-> NoDir]
    /\ desiredState = {}
    /\ removalState = {}
    /\ pc = "off"
    /\ todo = {}
    /\ cyc = <<>>
    /\ run = NoRun
    /\ last = [u \in Units |-> NoLast]
    /\ published = {}

CallLoadPlugins ==
    /\ fn.pc = "call"
    /\ fn.op = "LoadPlugins"
    /\ LET r == LoadPlugins(fn.listing, fn.rd, modules)
       IN  /\ modules' = r.modules
           /\ fn' = [fn EXCEPT !.pc = "done", !.err = r.err]
    /\ UNCHANGED <<cfg, remote, disk, desiredState, removalState, pc, todo, cyc, run, last,
                   published, hk, life, reg, bus>>

SpecPlugins == InitPlugins /\ [][CallLoadPlugins]_vars

-----------------------------------------------------------------------------
(* pkg/core event bus: matchesPattern (SpecMatch) *)

\* event types and patterns as bytes
TypeBytes ==
    [n \in {"deploy_*", "deploy_success", "deploy_failed", "notify_info"} |->
        CASE n = "deploy_*"       -> <<100, 101, 112, 108, 111, 121, 95, 42>>
          [] n = "deploy_success" -> <<100, 101, 112, 108, 111, 121, 95, 115, 117, 99, 99, 101, 115, 115>>
          [] n = "deploy_failed"  -> <<100, 101, 112, 108, 111, 121, 95, 102, 97, 105, 108, 101, 100>>
          [] n = "notify_info"    -> <<110, 111, 116, 105, 102, 121, 95, 105, 110, 102, 111>>]

\* "*"
Star == <<42>>

\* strings.HasPrefix
HasPrefix(s, prefix) ==
    /\ Len(s) >= Len(prefix)
    /\ SubSeq(s, 1, Len(prefix)) = prefix

RECURSIVE TrimSuffix_All(_, _)
\* variant: every trailing occurrence of the suffix is removed
TrimSuffix_All(s, suffix) ==
    IF suffix # <<>> /\ HasSuffix(s, suffix)
    THEN TrimSuffix_All(SubSeq(s, 1, Len(s) - Len(suffix)), suffix)
    ELSE s

\* strings.TrimSuffix: s without the suffix, once, if s ends with it
TrimSuffix(s, suffix) ==
    IF HasSuffix(s, suffix) THEN SubSeq(s, 1, Len(s) - Len(suffix)) ELSE s

matchesPattern(eventType, pattern) ==
    IF pattern = eventType THEN TRUE
    ELSE IF HasSuffix(pattern, Star)
         THEN LET prefix == TrimSuffix(pattern, Star) IN HasPrefix(eventType, prefix)
         ELSE FALSE

\* event types and patterns: the named ones and every string of 'd', '_'
\* and '*' up to MaxTextLen bytes
Texts ==
    {TypeBytes[n] : n \in DOMAIN TypeBytes} \cup
    UNION {[1..n -> {100, 95, 42}] : n \in 0..MaxTextLen}

InitMatch ==
    /\ \E t \in Texts, p \in Texts :
          fn = [pc |-> "call", op |-> "matchesPattern", eventType |-> t, pattern |-> p,
                out |-> FALSE]
    /\ modules = <<>>
    /\ reg = RegOff
    /\ bus = BusOff
    /\ life = LifeOff
    /\ hk = HkIdle
    /\ remote = [scope |-> {}, hooks |-> FALSE, contents |-> {}]
    /\ cfg = [DryRun |-> FALSE, GlobalHooksDir |-> ""]
    /\ disk = [u \in Units |-> NoDir]
    /\ desiredState = {}
    /\ removalState = {}
    /\ pc = "off"
    /\ todo = {}
    /\ cyc = <<>>
    /\ run = NoRun
    /\ last = [u \in Units |-> NoLast]
    /\ published = {}

CallMatchesPattern ==
    /\ fn.pc = "call"
    /\ fn.op = "matchesPattern"
    /\ fn' = [fn EXCEPT !.pc = "done", !.out = matchesPattern(fn.eventType, fn.pattern)]
    /\ UNCHANGED <<cfg, remote, modules, disk, desiredState, removalState, pc, todo, cyc, run,
                   last, published, hk, life, reg, bus>>

SpecMatch == InitMatch /\ [][CallMatchesPattern]_vars

-----------------------------------------------------------------------------
(* pkg/core event bus: RegisterEventType called from several goroutines     *)
(* and Publish from another (SpecBusTypes).  bus.mu is the goroutine         *)
(* holding eventTypesMu, 0 if none; bus.reader is the goroutine in Publish.  *)

EventNames == {"deploy_success", "notify_info"}

\* no entry under that key of RegisteredEventTypes; the descriptor each
\* caller registers is numbered after the caller
NoDesc == 0

\* the state of the package variables before any call, every caller at the
\* call of RegisterEventType with a descriptor of its own
InitBusTypes ==
    /\ \E names \in [1..MaxCallers -> EventNames], t \in EventNames :
          bus = [BusOff EXCEPT
                    !.proc = "up",
                    !.types = [n \in EventNames |-> NoDesc],
                    !.reader = [pc |-> "call", type |-> t, snap |-> <<>>, ok |-> "none"],
                    !.callers = [g \in 1..MaxCallers |->
                                    [pc |-> "call", name |-> names[g], desc |-> g,
                                     exists |-> FALSE, ret |-> "none"]]]
    /\ fn = FnOff
    /\ modules = <<>>
    /\ reg = RegOff
    /\ life = LifeOff
    /\ hk = HkIdle
    /\ remote = [scope |-> {}, hooks |-> FALSE, contents |-> {}]
    /\ cfg = [DryRun |-> FALSE, GlobalHooksDir |-> ""]
    /\ disk = [u \in Units |-> NoDir]
    /\ desiredState = {}
    /\ removalState = {}
    /\ pc = "off"
    /\ todo = {}
    /\ cyc = <<>>
    /\ run = NoRun
    /\ last = [u \in Units |-> NoLast]
    /\ published = {}

notBus == <<cfg, remote, modules, disk, desiredState, removalState, pc, todo, cyc, run, last,
            published, hk, life, reg, fn>>

\* variant: the check and the write without the mutex
CanLock_NoMutex(mu) == TRUE

\* sync.RWMutex.Lock returns when no goroutine holds the mutex
CanLock(mu) == mu = 0

\* eventTypesMu.Lock()
RegLock(g) ==
    /\ bus.proc = "up"
    /\ bus.callers[g].pc = "call"
    /\ CanLock(bus.mu)
    /\ bus' = [bus EXCEPT !.mu = g, !.callers[g].pc = "locked"]
    /\ UNCHANGED notBus

\* _, exists := RegisteredEventTypes[desc.Name]
RegCheck(g) ==
    /\ bus.proc = "up"
    /\ bus.callers[g].pc = "locked"
    /\ bus' = [bus EXCEPT !.callers[g].pc = "checked",
                          !.callers[g].exists = (bus.types[bus.callers[g].name] # NoDesc)]
    /\ UNCHANGED notBus

\* return the error, or write the entry and return nil; the deferred Unlock
RegReturn(g) ==
    /\ bus.proc = "up"
    /\ bus.callers[g].pc = "checked"
    /\ LET c == bus.callers[g] IN
       bus' = [bus EXCEPT
                  !.types = IF c.exists THEN @ ELSE [@ EXCEPT ![c.name] = c.desc],
                  !.mu = IF @ = g THEN 0 ELSE @,
                  !.callers[g].pc = "done",
                  !.callers[g].ret = IF c.exists THEN "already registered" ELSE "nil"]
    /\ UNCHANGED notBus

\* what the lookup can give when the map was written while it was read: Go
\* defines no result for the race, and the runtime may end the process with
\* "concurrent map read and map write"
RacyLookup == {"found", "absent", "fatal"}

\* Publish: desc, ok := RegisteredEventTypes[event.Type] begins; Publish
\* does not take eventTypesMu
PubLookupBegin ==
    /\ bus.proc = "up"
    /\ bus.reader.pc = "call"
    /\ bus' = [bus EXCEPT !.reader.pc = "reading", !.reader.snap = bus.types]
    /\ UNCHANGED notBus

\* the lookup ends
PubLookupEnd ==
    /\ bus.proc = "up"
    /\ bus.reader.pc = "reading"
    /\ \E r \in (IF bus.types # bus.reader.snap THEN RacyLookup
                  ELSE IF bus.types[bus.reader.type] # NoDesc THEN {"found"} ELSE {"absent"}) :
          bus' = [bus EXCEPT !.reader.pc = "validated", !.reader.ok = r,
                             !.proc = IF r = "fatal" THEN "crashed" ELSE @]
    /\ UNCHANGED notBus

NextBusTypes ==
    \/ \E g \in 1..MaxCallers : RegLock(g) \/ RegCheck(g) \/ RegReturn(g)
    \/ PubLookupBegin
    \/ PubLookupEnd

SpecBusTypes == InitBusTypes /\ [][NextBusTypes]_vars

-----------------------------------------------------------------------------
(* pkg/core event bus: Subscribe, Publish and the goroutines Publish spawns  *)
(* (SpecBus).  bus.spawned holds one record per `go listener(ctx, event)`.   *)

Patterns == {"deploy_*", "deploy_success", "notify_info"}

\* listeners: one that returns, one that panics, one that never returns
Handlers == {"returns", "panics", "hangs"}

InitBus ==
    /\ bus = [BusOff EXCEPT !.proc = "up", !.pub = "idle",
                            !.subscribers = [p \in Patterns |-> <<>>]]
    /\ fn = FnOff
    /\ modules = <<>>
    /\ reg = RegOff
    /\ life = LifeOff
    /\ hk = HkIdle
    /\ remote = [scope |-> {}, hooks |-> FALSE, contents |-> {}]
    /\ cfg = [DryRun |-> FALSE, GlobalHooksDir |-> ""]
    /\ disk = [u \in Units |-> NoDir]
    /\ desiredState = {}
    /\ removalState = {}
    /\ pc = "off"
    /\ todo = {}
    /\ cyc = <<>>
    /\ run = NoRun
    /\ last = [u \in Units |-> NoLast]
    /\ published = {}

RECURSIVE SubCount(_, _)
\* the listeners held under the patterns ps
SubCount(ps, subs) ==
    IF ps = {} THEN 0
    ELSE LET p == CHOOSE q \in ps : TRUE IN Len(subs[p]) + SubCount(ps \ {p}, subs)

\* Subscribe(pattern, handler): append under subscribersMu.Lock(), which a
\* Publish that has not returned yet keeps out by its RLock
Subscribe(p, h) ==
    /\ bus.proc = "up"
    /\ bus.pub = "idle"
    /\ SubCount(Patterns, bus.subscribers) < MaxSubs
    /\ bus' = [bus EXCEPT !.subscribers[p] = Append(@, h)]
    /\ UNCHANGED notBus

RECURSIVE Dispatch(_, _, _, _)
\* the two nested loops of Publish: one goroutine for every listener of
\* every pattern that matches, patterns taken in the order ps
Dispatch(ps, subs, t, k) ==
    IF ps = <<>> THEN <<>>
    ELSE (IF matchesPattern(TypeBytes[t], TypeBytes[Head(ps)])
          THEN [i \in 1..Len(subs[Head(ps)]) |->
                   [pub |-> k, type |-> t, h |-> subs[Head(ps)][i], st |-> "running"]]
          ELSE <<>>) \o Dispatch(Tail(ps), subs, t, k)

\* Publish up to the end of the loops: the goroutines are started
PublishCall(t) ==
    /\ bus.proc = "up"
    /\ bus.pub = "idle"
    /\ bus.pubs < MaxPublishes
    /\ bus' = [bus EXCEPT
                  !.pub = "dispatched", !.pubs = @ + 1, !.event = t,
                  !.spawned = @ \o Dispatch(SetToSeq(Patterns), bus.subscribers, t, bus.pubs + 1)]
    /\ UNCHANGED notBus

\* variant: Publish waits for the listeners it started
PublishReturns_Waits(b) ==
    \A i \in DOMAIN b.spawned : b.spawned[i].pub = b.pubs => b.spawned[i].st = "done"

\* nothing stands between the loops and the return of Publish
PublishReturns(b) == TRUE

\* the deferred RUnlock and the return of Publish
PublishReturn ==
    /\ bus.proc = "up"
    /\ bus.pub = "dispatched"
    /\ PublishReturns(bus)
    /\ bus' = [bus EXCEPT !.pub = "idle"]
    /\ UNCHANGED notBus

\* `go listener(ctx, event)`: no deferred recover in the goroutine
Recovers == FALSE

\* a spawned listener ends: it returns, or it panics, and a panic no
\* goroutine recovers from ends the process
ListenerEnd(i) ==
    /\ bus.proc = "up"
    /\ bus.spawned[i].st = "running"
    /\ bus.spawned[i].h # "hangs"
    /\ IF bus.spawned[i].h = "panics"
       THEN bus' = [bus EXCEPT !.spawned[i].st = "panicked",
                               !.proc = IF Recovers THEN @ ELSE "crashed"]
       ELSE bus' = [bus EXCEPT !.spawned[i].st = "done"]
    /\ UNCHANGED notBus

NextBus ==
    \/ \E p \in Patterns, h \in Handlers : Subscribe(p, h)
    \/ \E t \in EventNames : PublishCall(t)
    \/ PublishReturn
    \/ \E i \in DOMAIN bus.spawned : ListenerEnd(i)

SpecBus == InitBus /\ [][NextBus]_vars

-----------------------------------------------------------------------------
(* main and pkg/config: the configuration is loaded and validated, then the  *)
(* modules are registered, initialised and started (SpecBoot)                *)

RECURSIVE SplitAcc(_, _, _)
SplitAcc(s, sep, cur) ==
    IF s = <<>> THEN <<cur>>
    ELSE IF Head(s) = sep THEN <<cur>> \o SplitAcc(Tail(s), sep, <<>>)
    ELSE SplitAcc(Tail(s), sep, Append(cur, Head(s)))

\* strings.Split(s, sep) for a one-byte separator: one field more than
\* there are separators, so one empty field for the empty string
Split(s, sep) == SplitAcc(s, sep, <<>>)

RECURSIVE TrimSpace(_)
\* strings.TrimSpace, for the space byte
TrimSpace(s) ==
    IF s = <<>> THEN s
    ELSE IF Head(s) = 32 THEN TrimSpace(Tail(s))
    ELSE IF s[Len(s)] = 32 THEN TrimSpace(SubSeq(s, 1, Len(s) - 1))
    ELSE s

\* the users of "a,b": split at ',' (44), each field trimmed
SplitUsers(s) == [i \in DOMAIN Split(s, 44) |-> TrimSpace(Split(s, 44)[i])]

\* LoadConfig: os.Getenv gives "" for a variable that is not set
LoadConfig(env) ==
    [Token |-> env.GITHUB_TOKEN, Users |-> SplitUsers(env.GITHUB_USERS),
     Topic |-> env.TOPIC_FILTER]

\* a key the core section of the file does not have
NoKey == [kind |-> "none", str |-> <<>>, list |-> <<>>]

\* getStringSlice: a YAML list is taken element by element, a YAML string
\* is split like the environment variable
getStringSlice(v) == IF v.kind = "list" THEN v.list ELSE SplitUsers(v.str)

\* LoadConfigFromMap(coreSection)
LoadConfigFromMap(m) ==
    [Token |-> m.token,
     Users |-> IF m.users.kind = "none" THEN <<>> ELSE getStringSlice(m.users),
     Topic |-> m.topic]

\* MergeConfig(primary, fallback)
MergeConfig(primary, fallback) ==
    [Token |-> IF primary.Token = "" THEN fallback.Token ELSE primary.Token,
     Users |-> IF Len(primary.Users) = 0 THEN fallback.Users ELSE primary.Users,
     Topic |-> IF primary.Topic = "" THEN fallback.Topic ELSE primary.Topic]

\* main: cfg := cfgEnv, or the file's core section merged over it
EffectiveConfig(env, file) ==
    IF file.core THEN MergeConfig(LoadConfigFromMap(file), LoadConfig(env)) ELSE LoadConfig(env)

\* main: cfg.Token == "" || len(cfg.Users) == 0 || cfg.Topic == ""
ValidationFails(c) == c.Token = "" \/ Len(c.Users) = 0 \/ c.Topic = ""

\* GITHUB_USERS: not set, "alice", "alice, bob"
EnvUsers == {<<>>, <<97, 108, 105, 99, 101>>, <<97, 108, 105, 99, 101, 44, 32, 98, 111, 98>>}

\* the environment, and config.yaml: no core section, or a core section
\* with or without token and topic, its users key absent, an empty list, a
\* list of one user or the string "bob"
BootInputs ==
    [env : [GITHUB_TOKEN : {"", "ghp_1"}, GITHUB_USERS : EnvUsers, TOPIC_FILTER : {"", "homelab"}],
     file : {[core |-> FALSE, token |-> "", users |-> NoKey, topic |-> ""]} \cup
            [core : {TRUE}, token : {"", "ghp_2"}, topic : {"", "lab"},
             users : {NoKey,
                      [kind |-> "list", str |-> <<>>, list |-> <<>>],
                      [kind |-> "list", str |-> <<>>, list |-> <<<<98, 111, 98>>>>],
                      [kind |-> "string", str |-> <<98, 111, 98>>, list |-> <<>>]}]]

\* the process at the entry of main
InitBoot ==
    /\ \E in \in BootInputs :
          fn = [pc |-> "call", op |-> "main", env |-> in.env, file |-> in.file,
                cfg |-> LoadConfig(in.env)]
    /\ life = [LifeOff EXCEPT !.main = "boot"]
    /\ modules = <<>>
    /\ reg = RegOff
    /\ bus = BusOff
    /\ hk = HkIdle
    /\ remote = [scope |-> {}, hooks |-> FALSE, contents |-> {}]
    /\ cfg = [DryRun |-> FALSE, GlobalHooksDir |-> ""]
    /\ disk = [u \in Units |-> NoDir]
    /\ desiredState = {}
    /\ removalState = {}
    /\ pc = "off"
    /\ todo = {}
    /\ cyc = <<>>
    /\ run = NoRun
    /\ last = [u \in Units |-> NoLast]
    /\ published = {}

\* main up to the call of mgr.Init: the validation ends the process with
\* os.Exit(1), or the plugins and the reconciler are registered
MainConfig ==
    /\ life.main = "boot"
    /\ LET c == EffectiveConfig(fn.env, fn.file) IN
       /\ fn' = [fn EXCEPT !.pc = "done", !.cfg = c]
       /\ IF ValidationFails(c)
          THEN /\ life' = [life EXCEPT !.main = "exit1"]
               /\ modules' = modules
          ELSE /\ modules' = FleetModules
               /\ life' = [life EXCEPT !.main = "init", !.idx = 1,
                                       !.startSt = [i \in 1..Len(FleetModules) |-> "no"]]
    /\ UNCHANGED <<cfg, remote, disk, desiredState, removalState, pc, todo, cyc, run, last,
                   published, hk, reg, bus>>

SpecBoot == InitBoot /\ [][MainConfig \/ NextLife]_vars

-----------------------------------------------------------------------------
(* plugins/webhook_trigger: POST /reconcile while the process runs           *)
(* (SpecWebhook).  life.trigger is the number of values buffered in          *)
(* core.TriggerReconcile, a channel of capacity 1.                           *)

\* handleReconcile for an accepted request: the two events are published,
\* then the non-blocking send.  No statement of the program receives from
\* core.TriggerReconcile and, initCoreEvents never being called,
\* reconcile_now has no subscriber.
HandleReconcile ==
    /\ life.main \in {"start", "wait", "stop"}
    /\ published' = published \cup {"reconcile_now", "webhook_received"}
    /\ life' = [life EXCEPT !.trigger = 1]
    /\ UNCHANGED <<cfg, remote, modules, disk, desiredState, removalState, pc, todo, cyc, run,
                   last, hk, reg, bus, fn>>

SpecWebhook == InitLife /\ [][NextLife \/ HandleReconcile]_vars /\ LifeFairness

-----------------------------------------------------------------------------
(* pkg/core Secret: the forms in which a secret value leaves the process     *)
(* (SpecSecret).  Strings are bytes.                                         *)

\* "REDACTED"
RedactedMarker == <<82, 69, 68, 65, 67, 84, 69, 68>>

\* variant: the value itself
Redacted_Cleartext(value) == value

\* Secret.Redacted
Redacted(value) == IF value = <<>> THEN <<>> ELSE RedactedMarker

\* json.Marshal of a string none of whose bytes needs escaping, as the
\* strings Redacted returns: the bytes between two '"'
jsonMarshal(str) == <<34>> \o str \o <<34>>

\* Secret.MarshalJSON
MarshalJSON(value) == jsonMarshal(Redacted(value))

\* Secret.String
String(value) == Redacted(value)

\* secret values: every string of 's', 'R' and '"' up to MaxSecretLen
\* bytes, and the marker itself
SecretValues == {RedactedMarker} \cup UNION {[1..n -> {115, 82, 34}] : n \in 0..MaxSecretLen}

InitSecret ==
    /\ \E v \in SecretValues :
          fn = [pc |-> "call", op |-> "Secret", value |-> v, json |-> <<>>, str |-> <<>>]
    /\ modules = <<>>
    /\ reg = RegOff
    /\ bus = BusOff
    /\ life = LifeOff
    /\ hk = HkIdle
    /\ remote = [scope |-> {}, hooks |-> FALSE, contents |-> {}]
    /\ cfg = [DryRun |-> FALSE, GlobalHooksDir |-> ""]
    /\ disk = [u \in Units |-> NoDir]
    /\ desiredState = {}
    /\ removalState = {}
    /\ pc = "off"
    /\ todo = {}
    /\ cyc = <<>>
    /\ run = NoRun
    /\ last = [u \in Units |-> NoLast]
    /\ published = {}

\* json.Marshal(secret) and fmt's use of secret.String()
CallSecret ==
    /\ fn.pc = "call"
    /\ fn.op = "Secret"
    /\ fn' = [fn EXCEPT !.pc = "done", !.json = MarshalJSON(fn.value), !.str = String(fn.value)]
    /\ UNCHANGED <<cfg, remote, modules, disk, desiredState, removalState, pc, todo, cyc, run,
                   last, published, hk, life, reg, bus>>

SpecSecret == InitSecret /\ [][CallSecret]_vars

-----------------------------------------------------------------------------
(* Properties of the reconcile cycle (Spec) *)

Alice == <<"alice", "app">>
Bob == <<"bob", "old">>

CycHas(c, op, u) == \E i \in DOMAIN c : c[i] = CycEv(op, u)

Pruned(c, u) == CycHas(c, "down", u) \/ CycHas(c, "removeall", u)

LogOps(ops) == {i \in DOMAIN run.log : run.log[i].op \in ops}

C2_ConflictNotDeployed ==
    \A u \in desiredState \cap removalState :
        /\ ~CycHas(cyc, "deploy", u)
        /\ run.unit # u

C2_Witness ==
    /\ pc = "deploy"
    /\ todo = {}
    /\ Alice \in desiredState \cap removalState
    /\ CycHas(cyc, "skip", Alice)

\* C3 as stated: for a unit in both sets that is on disk, the cycle neither
\* invokes Down for it nor deletes its directory.
C3_ConflictNotPruned ==
    \A u \in desiredState \cap removalState : ~Pruned(cyc, u)

\* C3 amended: for a unit in both sets the deploy is skipped (nothing is
\* deployed, one skip is recorded), and if it is on disk the removal is
\* applied as for any unit of the Removal set: unless DryRun, Down is invoked
\* in its directory and RemoveAll is called on it right after; under DryRun
\* the directory is left as it is.
C3_ConflictIsPruned ==
    [][/\ pc = "local" /\ pc' = "deploy" =>
            \A u \in desiredState \cap removalState :
                disk[u].exists =>
                    IF cfg.DryRun
                    THEN CycHas(cyc', "dryprune", u) /\ disk'[u] = disk[u] /\ ~Pruned(cyc', u)
                    ELSE \E i \in DOMAIN cyc' :
                            /\ i + 1 \in DOMAIN cyc'
                            /\ cyc'[i] = CycEv("down", u)
                            /\ cyc'[i + 1] = CycEv("removeall", u)
       /\ \A u \in Units :
            u \in todo /\ u \notin todo' /\ u \in removalState =>
                /\ cyc' = Append(cyc, CycEv("skip", u))
                /\ run' = run
                /\ disk' = disk]_vars

C3_Witness ==
    /\ pc = "deploy"
    /\ todo = {}
    /\ Alice \in desiredState \cap removalState
    /\ CycHas(cyc, "down", Alice)
    /\ CycHas(cyc, "removeall", Alice)
    /\ CycHas(cyc, "skip", Alice)

-----------------------------------------------------------------------------
(* Properties of deployRepo (Spec) *)

DeploySteps == {"fetchhooks", "secrets", "hook", "up"}

\* the latest call and the one before it, of the same unit, fetched the
\* same descriptor content
SameContentTwice ==
    /\ run.res # "none"
    /\ run.prev.res # "none"
    /\ run.content # NoContent
    /\ run.prev.content = run.content

FailedPreHook(i) ==
    /\ run.log[i].op = "hook"
    /\ run.log[i].stage \in {"gpre", "pre"}
    /\ run.log[i].exit # 0

\* C5: if a pre-hook script (global or per-unit pre stage) exits non-zero in
\* a unit's deploy, nothing of that deploy follows it: no later hook script
\* of any stage, no Up, no post-hook; and the unit gets no second deployRepo
\* call in that cycle.
C5_PreHookFailureAborts ==
    \A i \in DOMAIN run.log :
        FailedPreHook(i) =>
            /\ \A j \in DOMAIN run.log : j > i => run.log[j].op \notin {"hook", "up"}
            /\ \A j \in DOMAIN run.log :
                  /\ run.log[j].op # "up"
                  /\ ~(run.log[j].op = "hook" /\ run.log[j].stage \in {"post", "gpost"})
            /\ Cardinality({j \in DOMAIN cyc : cyc[j] = CycEv("deploy", run.unit)}) = 1

C5_Witness ==
    /\ run.res = "prehookerr"
    /\ \E i, j \in DOMAIN run.log :
          /\ i < j
          /\ run.log[i].op = "hook" /\ run.log[i].stage = "gpre" /\ run.log[i].exit = 0
          /\ FailedPreHook(j) /\ run.log[j].stage = "pre"

\* C6: if Execute("get_secrets") of a secrets plugin returns an error in a
\* unit's deploy, no hook script of any stage runs and Up is not invoked for
\* that unit in that cycle.
C6_SecretErrorAborts ==
    (\E i \in DOMAIN run.log : run.log[i].op = "secrets" /\ run.log[i].exit # 0)
        => /\ LogOps({"hook", "up"}) = {}
           /\ Cardinality({j \in DOMAIN cyc : cyc[j] = CycEv("deploy", run.unit)}) = 1

C6_Witness ==
    /\ run.res = "secreterr"
    /\ \E i, j \in DOMAIN run.log :
          /\ i < j
          /\ run.log[i].op = "secrets" /\ run.log[i].name = "A" /\ run.log[i].exit = 0
          /\ run.log[j].op = "secrets" /\ run.log[j].name = "B" /\ run.log[j].exit # 0

SecretKeys == {"K"}

\* the get_secrets answers of this deploy that hold key k, in discovery order
Owners(k) ==
    {i \in DOMAIN run.log :
        /\ run.log[i].op = "secrets"
        /\ \E m \in DOMAIN run.log[i].env : run.log[i].env[m][1] = k}

ValueAt(i, k) ==
    LET m == CHOOSE n \in DOMAIN run.log[i].env : run.log[i].env[n][1] = k
    IN  run.log[i].env[m][2]

FirstOwner(k) == CHOOSE i \in Owners(k) : \A j \in Owners(k) : i <= j

\* C7: for every key returned by two or more secrets plugins in one
\* aggregation, the environment handed to Up holds the key exactly once,
\* bound to the value of the plugin earliest in discovery order.
C7_FirstWriterWins ==
    \A i \in LogOps({"up"}), k \in SecretKeys :
        Cardinality(Owners(k)) >= 2 =>
            /\ Cardinality({m \in DOMAIN run.log[i].env : run.log[i].env[m][1] = k}) = 1
            /\ \A m \in DOMAIN run.log[i].env :
                  run.log[i].env[m][1] = k => run.log[i].env[m][2] = ValueAt(FirstOwner(k), k)

\* C8: whenever two secrets plugins return the same key in one aggregation,
\* notify_secret_conflict has been published on the event bus.
C8_ConflictEventPublished ==
    (\E k \in SecretKeys : Cardinality(Owners(k)) >= 2)
        => "notify_secret_conflict" \in published

\* C10: a unit whose deploy returned because of a hook failure or a secret
\* aggregation failure is retried by its next deployRepo call when the
\* remote descriptor is unchanged: that call again reaches secret
\* aggregation.
C10_AbortedDeployRetried ==
    /\ SameContentTwice
    /\ run.prev.res \in {"secreterr", "gprehookerr", "prehookerr"}
    /\ ~run.prev.pruned
    => LogOps({"secrets"}) # {}

-----------------------------------------------------------------------------
(* Properties of ExecuteHooks (SpecHooks) *)

\* file names in ascending lexical order
LexRank ==
    [n \in {e.name : e \in HookEntries} |->
        CASE n = "01-a.sh" -> 1 [] n = "02-b.sh" -> 2 [] n = "10-c.sh" -> 3
          [] n = "notes.txt" -> 4 [] n = "old.sh" -> 5]

\* the non-directory entries of the listed directory whose name ends in ".sh"
ShFiles ==
    {hk.listing[i].name : i \in {j \in DOMAIN hk.listing :
        ~hk.listing[j].isDir /\ hk.listing[j].name \in {"01-a.sh", "02-b.sh", "10-c.sh", "old.sh"}}}

RanNames == [i \in DOMAIN hk.ran |-> hk.ran[i][1]]

Ascending(names) ==
    \A i, j \in DOMAIN names : i < j => LexRank[names[i]] < LexRank[names[j]]

\* C9 as stated: ExecuteHooks on a readable stage directory runs exactly the
\* non-directory *.sh entries, each once, in ascending lexical order, for
\* every listing order.
C9_RunsAllInOrder ==
    hk.pc = "done" /\ hk.rd = "ok" =>
        /\ Ascending(RanNames)
        /\ {RanNames[i] : i \in DOMAIN RanNames} = ShFiles

\* C9 amended: on a readable stage directory ExecuteHooks runs the
\* non-directory *.sh entries in ascending lexical order, each at most once,
\* up to and including the first one that exits non-zero: exactly those
\* before which no script failed; all of them, and no error, when none fails.
C9_RunsInOrderUntilFailure ==
    hk.pc = "done" /\ hk.rd = "ok" =>
        /\ Ascending(RanNames)
        /\ {RanNames[i] : i \in DOMAIN RanNames} =
              {h \in ShFiles : \A g \in ShFiles : LexRank[g] < LexRank[h] => hk.exit[g] = 0}
        /\ \A i \in DOMAIN hk.ran : hk.ran[i][2] = hk.exit[hk.ran[i][1]]
        /\ (hk.err = "nil") = (\A h \in ShFiles : hk.exit[h] = 0)

C9_Witness ==
    /\ hk.pc = "done"
    /\ hk.rd = "ok"
    /\ Len(hk.listing) = 4
    /\ hk.listing[1].name = "10-c.sh"
    /\ hk.listing[2].name = "old.sh"
    /\ hk.listing[3].name = "02-b.sh"
    /\ hk.listing[4].name = "01-a.sh"
    /\ RanNames = <<"01-a.sh", "02-b.sh", "10-c.sh">>

-----------------------------------------------------------------------------
(* End-to-end properties of a cycle (Spec) *)

\* the step is the deployRepo call of the deploy loop for unit u
DeployStepOf(u) == cyc' = Append(cyc, CycEv("deploy", u))

\* the call fetched a descriptor and none of its steps failed
EveryStepSucceeded(r) ==
    /\ r.content \in Contents
    /\ \A i \in DOMAIN r.log : r.log[i].exit = 0

\* C11: a unit in Desired and not in Removal with no local directory, whose
\* remote descriptor has content c, in a cycle without DryRun where every
\* step succeeds: afterwards the directory exists, the local descriptor is
\* c, hooks were fetched, Up was invoked exactly once and nothing was
\* pruned.
C11_FreshUnitDeployed ==
    [][\A u \in Units :
          /\ DeployStepOf(u)
          /\ ~cfg.DryRun
          /\ ~disk[u].exists
          /\ EveryStepSucceeded(run')
          => /\ disk'[u].exists
             /\ disk'[u].compose = run'.content
             /\ \E i \in DOMAIN run'.log : run'.log[i].op = "fetchhooks"
             /\ Cardinality({i \in DOMAIN run'.log : run'.log[i].op = "up"}) = 1
             /\ ~Pruned(cyc', u)]_vars

\* Down in the directory of u, and os.RemoveAll on it right after
DownThenRemoveAll(c, u) ==
    \E i \in DOMAIN c :
        /\ i + 1 \in DOMAIN c
        /\ c[i] = CycEv("down", u)
        /\ c[i + 1] = CycEv("removeall", u)

\* C12: in a cycle without DryRun every unit on local disk that is in the
\* Removal set and not in the Desired set is pruned: Down is invoked in its
\* directory, then the directory is deleted; if the delete succeeds the
\* directory is gone, and it stays gone for the rest of the cycle.
C12_RemovalOnlyPruned ==
    [][/\ pc = "local" /\ pc' = "deploy" /\ ~cfg.DryRun =>
            \A u \in removalState \ desiredState :
                disk[u].exists =>
                    /\ DownThenRemoveAll(cyc', u)
                    /\ Cardinality({i \in DOMAIN cyc' : cyc'[i].unit = u}) =
                          IF CycHas(cyc', "rmerr", u) THEN 3 ELSE 2
                    /\ ~CycHas(cyc', "rmerr", u) => ~disk'[u].exists
       /\ pc = "deploy" =>
            \A u \in removalState \ desiredState :
                ~disk[u].exists => ~disk'[u].exists]_vars

C12_Witness ==
    /\ pc = "deploy"
    /\ todo = {}
    /\ ~cfg.DryRun
    /\ Alice \in removalState \ desiredState
    /\ cyc = <<CycEv("down", Alice), CycEv("removeall", Alice), CycEv("warn", Bob)>>
    /\ ~disk[Alice].exists
    /\ disk[Bob].exists

\* the effects that change the disk or the running services
Mutations == {"down", "removeall", "rmerr", "mkdir", "write", "fetchhooks", "secrets", "hook", "up"}

\* C13: with DryRun set no step of a cycle mutates anything: the unit
\* directories stay as they are, and there is no Down, no delete, no
\* directory creation, no descriptor or hook file write, no hook run, no Up.
C13_DryRunNoMutation ==
    [][cfg.DryRun =>
          /\ disk' = disk
          /\ \A i \in DOMAIN cyc' : cyc'[i].op \notin Mutations
          /\ \A i \in DOMAIN run'.log : run'.log[i].op \notin Mutations]_vars

C13_Witness ==
    /\ cfg.DryRun
    /\ pc = "deploy"
    /\ CycHas(cyc, "dryprune", Alice)
    /\ CycHas(cyc, "skip", Alice)
    /\ last[Alice].res = "dryrun"
    /\ disk[Alice] = Deployed0
    /\ ~disk[Bob].exists

-----------------------------------------------------------------------------
(* Properties of a cycle over two repositories (SpecFleet) *)

DeployCount(c, u) == Cardinality({i \in DOMAIN c : c[i] = CycEv("deploy", u)})

FailedRuns == RunStates \ {"none", "notfound", "same", "dryrun", "done"}

\* C14: in every cycle deployRepo is invoked exactly once for each unit in
\* Desired and not in Removal, whatever happened to the deploy of another
\* unit: a unit the range has passed has one call, a unit still to come has
\* none yet and is still in the range; when the range is exhausted reconcile
\* returns to the loop of Start, whatever the calls did.
C14_PerUnitIsolation ==
    pc = "deploy" =>
        /\ todo \subseteq desiredState
        /\ \A u \in desiredState \ removalState :
              DeployCount(cyc, u) = IF u \in todo THEN 0 ELSE 1
        /\ todo = {} => ENABLED ReconcileDone

C14_Witness ==
    /\ pc = "deploy"
    /\ todo = {}
    /\ desiredState \ removalState = Units
    /\ cyc = <<CycEv("deploy", Alice), CycEv("deploy", Bob)>>
    /\ last[Alice].res \in FailedRuns
    /\ run.unit = Bob
    /\ run.res = "done"

-----------------------------------------------------------------------------
(* Properties of the process lifecycle (SpecLife, SpecLifeFair) *)

\* C15: at most one reconcile cycle of the Reconciler is executing in every
\* reachable state, and it is the loop goroutine that executes it.
C15_CyclesNeverOverlap ==
    /\ life.wg <= 1
    /\ (life.wg = 1) = (life.loop = "cycle")

C15_Witness ==
    /\ life.wg = 1
    /\ life.tick = 1
    /\ life.stopPc = "wait"
    /\ life.waiter = "waiting"

\* C16: a call of Reconciler.Stop made by ModuleManager.Stop in main's
\* shutdown path eventually returns, even if a cycle never finishes.
C16_StopEventuallyReturns ==
    (life.stopPc = "wait") ~> (life.stopPc \in {"nil", "ctxerr"})

\* C17: ModuleManager.Init calls Init one module at a time in registration
\* order; an Init error is returned at once, no later module is
\* initialised, main exits and Start is invoked on no module.
C17_InitInOrderAbortsOnError ==
    /\ \A k \in DOMAIN life.initLog : life.initLog[k].mod = k
    /\ \A k \in DOMAIN life.initLog :
          life.initLog[k].err => k = Len(life.initLog) /\ life.main = "exit1"
    /\ life.main = "exit1" =>
          /\ life.initLog # <<>>
          /\ life.initLog[Len(life.initLog)].err
          /\ \A i \in DOMAIN life.startSt : life.startSt[i] = "no"
          /\ life.loop = "none"
    /\ (\E i \in DOMAIN life.startSt : life.startSt[i] # "no") =>
          /\ Len(life.initLog) = Len(modules)
          /\ \A k \in DOMAIN life.initLog : ~life.initLog[k].err

C17_Witness ==
    /\ life.main = "exit1"
    /\ Len(life.initLog) = 2
    /\ ~life.initLog[1].err
    /\ life.initLog[2].err

\* C18: ModuleManager.Start spawns one goroutine per registered module and
\* waits for none: the next spawn is possible whatever the Start calls
\* spawned so far did, every spawned goroutine can make its Start call
\* whatever the others did, and once ModuleManager.Start has returned every
\* module has its goroutine.
C18_StartIndependent ==
    /\ life.main = "start" => ENABLED MgrStart
    /\ life.main \in {"wait", "stop", "done"} =>
          \A i \in DOMAIN life.startSt : life.startSt[i] # "no"
    /\ \A i \in DOMAIN life.startSt :
          Alive /\ life.startSt[i] = "spawned" => ENABLED (ModStart(i) \/ RecStart(i))

C18_Witness ==
    /\ life.main = "wait"
    /\ life.startSt[1] = "err"
    /\ life.startSt[2] = "called"
    /\ life.startSt[3] = "spawned"
    /\ life.startSt[4] = "ok"
    /\ life.wg = 1

\* C19: ModuleManager.Stop calls Stop on the modules one at a time in the
\* reverse of registration order, each once; an error of a Stop call does
\* not end the loop; when ModuleManager.Stop has returned every module had
\* its Stop call.
C19_StopReverseOrderAll ==
    /\ \A k \in DOMAIN life.stopLog : life.stopLog[k].mod = Len(modules) + 1 - k
    /\ life.main = "stop" => life.idx = Len(modules) - Len(life.stopLog)
    /\ life.main = "done" => Len(life.stopLog) = Len(modules)

C19_Witness ==
    /\ life.main = "done"
    /\ Len(life.stopLog) = 4
    /\ ~life.stopLog[1].err
    /\ life.stopLog[2].err
    /\ ~life.stopLog[3].err
    /\ life.stopLog[4].err

-----------------------------------------------------------------------------
(* Properties of GetPluginsWithCapability (SpecRegistry) *)

\* the position of the module named n in m.modules
RegIndex(n) == CHOOSE i \in DOMAIN modules : modules[i].name = n

\* C20: GetPluginsWithCapability(tag) returns exactly the registered modules
\* that are a Plugin and list tag among their capabilities, each once (also
\* when the tag is listed more than once), in registration order.
C20_ExactlyDeclaringPlugins ==
    reg.pc = "done" =>
        /\ {reg.result[k] : k \in DOMAIN reg.result} =
              {modules[i].name : i \in {j \in DOMAIN modules :
                  /\ modules[j].plugin
                  /\ \E c \in DOMAIN modules[j].caps : modules[j].caps[c] = reg.tag}}
        /\ \A a, b \in DOMAIN reg.result :
              a < b => RegIndex(reg.result[a]) < RegIndex(reg.result[b])

C20_Witness ==
    /\ reg.pc = "done"
    /\ reg.tag = "secrets"
    /\ Len(modules) = 3
    /\ modules[1].name = "core"
    /\ modules[2].name = "D"
    /\ modules[3].name = "B"
    /\ reg.result = <<"D", "B">>

-----------------------------------------------------------------------------
(* Properties of plugin discovery (SpecPlugins) *)

\* the artifacts of the listed directory that load as a core.Plugin
ValidArtifacts ==
    {fn.listing[i] : i \in {k \in DOMAIN fn.listing :
        /\ ~fn.listing[k].isDir
        /\ HasSuffix(NameBytes[fn.listing[k].name], DotSo)
        /\ fn.listing[k].load = "ok"}}

\* C21: when the plugins directory was read, LoadPlugins has registered
\* exactly the artifacts that load as a plugin, each once, in ascending
\* bytewise order of their file names; artifacts that fail to open, lack the
\* symbol or have the wrong type are left out and stop nothing.
C21_LoadPluginsSortedSkipsBad ==
    (fn.pc = "done" /\ fn.op = "LoadPlugins" /\ fn.rd = "ok") =>
        /\ fn.err = "nil"
        /\ Len(modules) = Cardinality(ValidArtifacts)
        /\ {modules[i].name : i \in DOMAIN modules} = {e.name : e \in ValidArtifacts}
        /\ \A i, j \in DOMAIN modules :
              i < j => BytesLess(NameBytes[modules[i].name], NameBytes[modules[j].name])

\* a directory listed out of order, whose first artifact by name fails to
\* load, and whose two later artifacts are registered
C21_Witness ==
    /\ fn.pc = "done" /\ fn.op = "LoadPlugins" /\ fn.rd = "ok"
    /\ fn.listing = <<[name |-> "b.so", isDir |-> FALSE, load |-> "ok"],
                      [name |-> "Z.so", isDir |-> FALSE, load |-> "open"],
                      [name |-> "a.so", isDir |-> FALSE, load |-> "ok"]>>
    /\ Len(modules) = 2
    /\ modules[1].name = "a.so"
    /\ modules[2].name = "b.so"

-----------------------------------------------------------------------------
(* Properties of event pattern matching (SpecMatch) *)

\* p ends with '*' and t agrees with p on every byte before that last one
PrefixRule(t, p) ==
    /\ Len(p) >= 1
    /\ p[Len(p)] = 42
    /\ Len(t) >= Len(p) - 1
    /\ \A i \in 1..(Len(p) - 1) : t[i] = p[i]

\* C22: matchesPattern answers true exactly when the pattern equals the
\* event type, or the pattern ends with '*' and the event type begins with
\* the pattern less that last byte; a '*' elsewhere is an ordinary byte.
\* deploy_* matches deploy_success and deploy_failed and not notify_info.
C22_MatchExactOrTrailingStar ==
    /\ (fn.pc = "done" /\ fn.op = "matchesPattern") =>
          (fn.out <=> (fn.pattern = fn.eventType \/ PrefixRule(fn.eventType, fn.pattern)))
    /\ matchesPattern(TypeBytes["deploy_success"], TypeBytes["deploy_*"])
    /\ matchesPattern(TypeBytes["deploy_failed"], TypeBytes["deploy_*"])
    /\ ~matchesPattern(TypeBytes["notify_info"], TypeBytes["deploy_*"])

\* a pattern with two trailing stars asked about a type that has the prefix
\* before them but not the first star: no match
C22_Witness ==
    /\ fn.pc = "done" /\ fn.op = "matchesPattern"
    /\ fn.pattern = <<100, 42, 42>>
    /\ fn.eventType = <<100, 95>>
    /\ ~fn.out

-----------------------------------------------------------------------------
(* Properties of the event type registry (SpecBusTypes) *)

\* the calls for name n that have returned nil
Succeeded(n) ==
    {g \in DOMAIN bus.callers :
        /\ bus.callers[g].pc = "done"
        /\ bus.callers[g].name = n
        /\ bus.callers[g].ret = "nil"}

\* C23: a RegisterEventType call that returns while its name has an entry
\* returns the error and changes no entry; one that returns while its name
\* has none writes its descriptor under that name only and returns nil.  In
\* every interleaving at most one call per name has returned nil, and once
\* every call has returned exactly one call per requested name has.
C23_RegisterOncePerName ==
    /\ [][\A g \in DOMAIN bus.callers :
            (bus.callers[g].pc # "done" /\ bus'.callers[g].pc = "done") =>
                LET n == bus.callers[g].name IN
                IF bus.types[n] # NoDesc
                THEN /\ bus'.callers[g].ret = "already registered"
                     /\ bus'.types = bus.types
                ELSE /\ bus'.callers[g].ret = "nil"
                     /\ bus'.types = [bus.types EXCEPT ![n] = bus.callers[g].desc]]_vars
    /\ [](\A n \in EventNames :
            /\ Cardinality(Succeeded(n)) <= 1
            /\ ((\A g \in DOMAIN bus.callers : bus.callers[g].pc = "done")
                 /\ (\E g \in DOMAIN bus.callers : bus.callers[g].name = n))
                    => Cardinality(Succeeded(n)) = 1)

\* three calls with the same name have returned, the second caller having
\* taken the mutex first: one nil, two errors, the entry is that caller's
C23_Witness ==
    /\ bus.proc = "up"
    /\ Len(bus.callers) >= 3
    /\ \A g \in 1..3 : bus.callers[g].pc = "done" /\ bus.callers[g].name = "deploy_success"
    /\ bus.callers[2].ret = "nil"
    /\ bus.callers[1].ret = "already registered"
    /\ bus.callers[3].ret = "already registered"
    /\ bus.types["deploy_success"] = 2
    /\ bus.types["notify_info"] = NoDesc

-----------------------------------------------------------------------------
(* Properties of Publish (SpecBus) *)

\* the goroutines Publish call k started for handler h
DispatchesOf(k, h) ==
    {i \in DOMAIN bus.spawned : bus.spawned[i].pub = k /\ bus.spawned[i].h = h}

\* handler h is subscribed under a pattern matching event type t
SubscribedFor(h, t) ==
    \E p \in Patterns :
        /\ \E j \in DOMAIN bus.subscribers[p] : bus.subscribers[p][j] = h
        /\ matchesPattern(TypeBytes[t], TypeBytes[p])

\* C24: for each Publish call no handler is started more than once, and
\* every handler started is subscribed under a pattern matching the type.
C24_AtMostOncePerHandler ==
    /\ \A k \in 1..bus.pubs : \A h \in Handlers : Cardinality(DispatchesOf(k, h)) <= 1
    /\ \A i \in DOMAIN bus.spawned : SubscribedFor(bus.spawned[i].h, bus.spawned[i].type)

\* the listeners subscribed under the patterns matching event type t
MatchingSubs(t) ==
    SubCount({p \in Patterns : matchesPattern(TypeBytes[t], TypeBytes[p])}, bus.subscribers)

\* C25: once the loops of a Publish call are through, in a running process,
\* Publish can return whatever its listeners do, and one goroutine has been
\* started for every listener subscribed under a matching pattern.
C25_PublishDoesNotWait ==
    (bus.proc = "up" /\ bus.pub = "dispatched") =>
        /\ ENABLED PublishReturn
        /\ Cardinality({i \in DOMAIN bus.spawned : bus.spawned[i].pub = bus.pubs})
              = MatchingSubs(bus.event)

\* Publish has returned while a listener that never returns is running and
\* another listener started by the same call has finished
C25_Witness ==
    /\ bus.proc = "up"
    /\ bus.pub = "idle"
    /\ \E i, j \in DOMAIN bus.spawned :
          /\ bus.spawned[i].pub = bus.spawned[j].pub
          /\ bus.spawned[i].h = "hangs" /\ bus.spawned[i].st = "running"
          /\ bus.spawned[j].h = "returns" /\ bus.spawned[j].st = "done"

\* C26: a listener that has panicked leaves the process running.
C26_PanicIsolated ==
    (\E i \in DOMAIN bus.spawned : bus.spawned[i].st = "panicked") => bus.proc = "up"

-----------------------------------------------------------------------------
(* Properties of startup (SpecBoot) *)

\* the file gives no users: no core section, no users key, or an empty value
NoFileUsers(file) ==
    \/ ~file.core
    \/ file.users.kind = "none"
    \/ file.users.kind = "list" /\ file.users.list = <<>>
    \/ file.users.kind = "string" /\ file.users.str = <<>>

\* a required setting has no value in the environment nor in the file
SettingMissing ==
    \/ fn.env.GITHUB_TOKEN = "" /\ (~fn.file.core \/ fn.file.token = "")
    \/ fn.env.GITHUB_USERS = <<>> /\ NoFileUsers(fn.file)
    \/ fn.env.TOPIC_FILTER = "" /\ (~fn.file.core \/ fn.file.topic = "")

\* C27: when the token, the users or the topic is configured nowhere, the
\* process gets no further than the exit of the validation: no module is
\* initialised or started and no reconcile cycle runs.
C27_MissingSettingsFatal ==
    (fn.op = "main" /\ SettingMissing) =>
        /\ life.main \in {"boot", "exit1"}
        /\ life.initLog = <<>>
        /\ life.loop = "none"
        /\ life.wg = 0

-----------------------------------------------------------------------------
(* Properties of the webhook trigger (SpecWebhook) *)

-----------------------------------------------------------------------------
(* Properties of the environments deployRepo hands out (Spec) *)

\* C29: every hook script of every stage of a deployRepo call is run with
\* the process environment followed by REPO_NAME, REPO_OWNER and TARGET_DIR
\* of the unit and nothing else, whatever the secrets plugins returned; the
\* pairs the plugins returned appear in the environment of Up only.
C29_SecretsOnlyInUpEnv ==
    \A i \in DOMAIN run.log :
        /\ run.log[i].op = "hook" =>
              run.log[i].env = ProcEnv \o <<<<"REPO_NAME", run.unit[2]>>,
                                             <<"REPO_OWNER", run.unit[1]>>,
                                             <<"TARGET_DIR", repoLocalPath(run.unit)>>>>
        /\ run.log[i].op = "up" =>
              \A j \in DOMAIN run.log :
                  (run.log[j].op = "secrets" /\ j < i) =>
                      \A m \in DOMAIN run.log[j].env :
                          \E n \in DOMAIN run.log[i].env : run.log[i].env[n] = run.log[j].env[m]

\* a call in which a plugin returned a secret, Up got it, and hook scripts
\* ran both before and after Up
C29_Witness ==
    /\ \E j \in DOMAIN run.log : run.log[j].op = "secrets" /\ run.log[j].env = <<<<"K", "a">>>>
    /\ \E i \in DOMAIN run.log :
          /\ run.log[i].op = "up"
          /\ \E n \in DOMAIN run.log[i].env : run.log[i].env[n] = <<"K", "a">>
          /\ \E h \in DOMAIN run.log : h < i /\ run.log[h].op = "hook"
          /\ \E h \in DOMAIN run.log : h > i /\ run.log[h].op = "hook"

-----------------------------------------------------------------------------
(* Properties of Secret (SpecSecret) *)

\* C30: the JSON encoding of a Secret is the JSON string "REDACTED" and its
\* String form is REDACTED when the value is not empty; both are the empty
\* string when the value is empty.  Neither depends on the value otherwise.
C30_SecretRedacted ==
    (fn.pc = "done" /\ fn.op = "Secret") =>
        IF fn.value = <<>>
        THEN fn.json = <<34, 34>> /\ fn.str = <<>>
        ELSE /\ fn.json = <<34, 82, 69, 68, 65, 67, 84, 69, 68, 34>>
             /\ fn.str = <<82, 69, 68, 65, 67, 84, 69, 68>>

\* a four-byte secret has been encoded and printed
C30_Witness ==
    /\ fn.pc = "done" /\ fn.op = "Secret"
    /\ fn.value = <<115, 34, 82, 115>>
    /\ fn.json = <<34, 82, 69, 68, 65, 67, 84, 69, 68, 34>>
    /\ fn.str = RedactedMarker

-----------------------------------------------------------------------------
(* Properties of the stages of deployRepo (Spec) *)

\* event i of the latest deployRepo call is a hook script run or Up
IsStageEv(i) == run.log[i].op \in {"hook", "up"}

\* the place of a stage in the deploy: global pre, pre, Up, post, global post
StageRank(i) ==
    CASE run.log[i].op = "up"       -> 3
      [] run.log[i].stage = "gpre"  -> 1
      [] run.log[i].stage = "pre"   -> 2
      [] run.log[i].stage = "post"  -> 4
      [] run.log[i].stage = "gpost" -> 5

\* C31: in every deployRepo call the hook scripts and Up happen in the
\* order global pre, per-unit pre, Up, per-unit post, global post; Up is
\* invoked once at most; a post-hook of either kind runs only after Up has
\* exited zero, and no pre-hook runs after Up was invoked.
C31_StageOrder ==
    /\ \A i, j \in DOMAIN run.log :
          (i < j /\ IsStageEv(i) /\ IsStageEv(j)) => StageRank(i) <= StageRank(j)
    /\ Cardinality({i \in DOMAIN run.log : run.log[i].op = "up"}) <= 1
    /\ \A j \in DOMAIN run.log :
          (run.log[j].op = "hook" /\ run.log[j].stage \in {"post", "gpost"}) =>
              \E i \in DOMAIN run.log : i < j /\ run.log[i].op = "up" /\ run.log[i].exit = 0

\* a call that ran a script of each of the four stages and Up
C31_Witness ==
    /\ run.res = "done"
    /\ \A st \in {"gpre", "pre", "post", "gpost"} :
          \E i \in DOMAIN run.log : run.log[i].op = "hook" /\ run.log[i].stage = st
    /\ \E i \in DOMAIN run.log : run.log[i].op = "up" /\ run.log[i].exit = 0

\* C32: in a deployRepo call whose docker compose up exited non-zero, no
\* script of the per-unit or the global post stage is run.
C32_UpFailureNoPostHooks ==
    (\E i \in DOMAIN run.log : run.log[i].op = "up" /\ run.log[i].exit # 0) =>
        /\ run.res = "uperr"
        /\ \A j \in DOMAIN run.log :
              ~(run.log[j].op = "hook" /\ run.log[j].stage \in {"post", "gpost"})

\* Up failed for a unit whose pre stages ran, with post scripts fetched and
\* a global hooks directory configured
C32_Witness ==
    /\ run.res = "uperr"
    /\ cfg.GlobalHooksDir # ""
    /\ disk[run.unit].post.files # {}
    /\ \E i \in DOMAIN run.log : run.log[i].op = "hook" /\ run.log[i].stage = "pre"
    /\ run.log[Len(run.log)].op = "up"

\* a per-unit post script of the latest call exited non-zero
PostHookFailed(i) ==
    run.log[i].op = "hook" /\ run.log[i].stage = "post" /\ run.log[i].exit # 0

\* C33: when a per-unit post script exits non-zero, deployRepo does not
\* return there: the descriptor write and Up before it succeeded, with a
\* global hooks directory the global post stage is run after it, and nothing
\* but scripts of the global post stage follows it.
C33_PostHookFailureNotFatal ==
    \A i \in DOMAIN run.log :
        PostHookFailed(i) =>
            /\ run.res \in {"done", "gposthookerr"}
            /\ \E w \in 1..(i - 1) : run.log[w].op = "write" /\ run.log[w].exit = 0
            /\ \E k \in 1..(i - 1) : run.log[k].op = "up" /\ run.log[k].exit = 0
            /\ cfg.GlobalHooksDir # "" =>
                  \E j \in DOMAIN run.log :
                      j > i /\ run.log[j].op = "hook" /\ run.log[j].stage = "gpost"
            /\ \A j \in DOMAIN run.log :
                  j > i => (run.log[j].op = "hook" /\ run.log[j].stage = "gpost")

\* the per-unit post script failed, the global post script then ran and
\* the call went to its end
C33_Witness ==
    /\ run.res = "done"
    /\ \E i \in DOMAIN run.log :
          /\ PostHookFailed(i)
          /\ \E j \in DOMAIN run.log :
                j > i /\ run.log[j].op = "hook" /\ run.log[j].stage = "gpost"
                      /\ run.log[j].exit = 0

\* the results of a deployRepo call that got past the descriptor write
AfterWrite ==
    {"prefetcherr", "postfetcherr", "secreterr", "gprehookerr", "prehookerr", "uperr",
     "gposthookerr", "done"}

\* C34: in a deployRepo call, every hook fetch, secrets request, hook script
\* run and Up comes after a successful write of the descriptor; and when the
\* call has returned at one of those later steps, the local descriptor
\* holds the fetched content.
C34_DescriptorWrittenFirst ==
    /\ \A i \in DOMAIN run.log :
          run.log[i].op \in {"fetchhooks", "secrets", "hook", "up"} =>
              \E w \in 1..(i - 1) : run.log[w].op = "write" /\ run.log[w].exit = 0
    /\ (/\ cyc # <<>>
        /\ cyc[Len(cyc)] = CycEv("deploy", run.unit)
        /\ run.res \in AfterWrite)
          => /\ ~cfg.DryRun
             /\ disk[run.unit].compose = run.content

\* a call that replaced the local descriptor v1 by v2 and then failed at Up
C34_Witness ==
    /\ cyc # <<>>
    /\ cyc[Len(cyc)] = CycEv("deploy", run.unit)
    /\ run.res = "uperr"
    /\ run.prev.content = "v1"
    /\ run.content = "v2"
    /\ disk[run.unit].compose = "v2"

\* C35: in a deployRepo call in which a hook fetch met an error other than
\* not-found, on the listing or on the content of a script, no hook script
\* is run and Up is not invoked.
C35_HookFetchFailureAborts ==
    (\E i \in DOMAIN run.log :
        /\ run.log[i].op = "fetchhooks"
        /\ (run.log[i].exit # 0 \/ run.log[i].name = "contenterr"))
    => \A j \in DOMAIN run.log : run.log[j].op \notin {"hook", "up"}

\* C36: a deployRepo call for a unit with no local descriptor file that
\* fetched a content, whatever it is, is not ended by change detection:
\* without DryRun it goes on to write the descriptor.
C36_AbsentFileIsDifferent ==
    [][\A u \in Units :
          (/\ DeployStepOf(u)
           /\ disk[u].compose = NoFile
           /\ run'.content \in Contents)
          => /\ run'.res # "same"
             /\ ~cfg.DryRun => \E i \in DOMAIN run'.log : run'.log[i].op = "write"]_vars

-----------------------------------------------------------------------------
(* Properties of the order of the steps of one cycle (Spec) *)

IsPruneEv(e) == e.op \in {"down", "removeall", "rmerr"}

\* C37: within one cycle every prune action (the executor's Down, the
\* deletion of the unit directory) comes before the first invocation of the
\* deploy pipeline: no prune event follows a deploy event in the cycle's
\* sequence of effects, and the pipeline itself never prunes.
C37_PruneBeforeDeploy ==
    /\ \A i, j \in DOMAIN cyc :
          (cyc[i].op = "deploy" /\ i < j) => ~IsPruneEv(cyc[j])
    /\ \A i \in DOMAIN run.log : ~IsPruneEv(run.log[i])

\* a cycle that pruned one unit and then ran the pipeline of another
C37_Witness ==
    \E i, j \in DOMAIN cyc :
        /\ i < j
        /\ cyc[i].op = "removeall"
        /\ cyc[j].op = "deploy"
        /\ cyc[i].unit # cyc[j].unit

-----------------------------------------------------------------------------
(* Properties of the ticker and of Reconciler.Stop (SpecLife) *)

\* C38: ticks are dropped, not queued.  However many ticks fire while a
\* cycle is in progress, ticker.C never holds more than one; when the cycle
\* ends exactly one tick is pending if any fired during it, and the cycle
\* that this tick starts leaves none behind: one cycle at most runs because
\* of the ticks that fired during the overrun.
C38_TicksDropped ==
    [][/\ life'.tick <= 1
       /\ (life.loop = "cycle" /\ life'.loop = "select" /\ life.fired >= 1)
              => life'.tick = 1
       /\ (life.loop = "select" /\ life'.loop = "cycle") => life'.tick = 0]_vars

\* a cycle during which the ticker fired more than once
C38_Witness ==
    /\ life.loop = "cycle"
    /\ life.fired >= 2
    /\ life.tick = 1

\* C39: once Reconciler.Stop has returned nil, and for as long as the
\* process lives, no reconcile cycle is executing: none was in progress at
\* the return and none has started since.
C39_NoCycleAfterStop ==
    (life.stopPc = "nil" /\ Alive) => (life.wg = 0 /\ life.loop # "cycle")

-----------------------------------------------------------------------------
(* Properties of the accesses to RegisteredEventTypes (SpecBusTypes) *)

\* C40: RegisteredEventTypes is never written by a RegisterEventType call
\* while Publish is reading it.
C40_RegistryAccessExclusive ==
    [][(bus'.types # bus.types) => bus.reader.pc # "reading"]_vars

=============================================================================
